---- MODULE Spec2Model ----
(***************************************************************************)
(* goog.html.SafeUrl (closure/goog/html/safeurl.js): the sealed SafeUrl    *)
(* value type, its builders and sanitizers, and the unwrap type check;     *)
(* and, at the end, goog.structs.StringSet.                                *)
(*                                                                         *)
(* A JavaScript string is modelled as the sequence of its UTF-16 code      *)
(* units (naturals), so that case folding, hexadecimal digits and percent  *)
(* decoding are computed and not assumed.  Every literal tuple is followed *)
(* by the text it spells.                                                  *)
(***************************************************************************)
EXTENDS Integers, Sequences, FiniteSets, TLC

(***************************************************************************)
(* Strings                                                                 *)
(***************************************************************************)

\* String.prototype.substring(from - 1, to) with 1-based inclusive bounds.
Sub(s, from, to) == IF from > to THEN <<>> ELSE SubSeq(s, from, to)

\* The ASCII case folding that a RegExp with the i flag applies to a code
\* unit (Canonicalize, non-unicode mode: a code unit >= 128 never folds to
\* one < 128), and that toLowerCase/toUpperCase apply to ASCII letters.
Fold(c) == IF c >= 97 /\ c <= 122 THEN c - 32 ELSE c

Digits == 48..57
UpperAZ == 65..90
LowerAZ == 97..122
\* \w
WordChars == Digits \cup UpperAZ \cup LowerAZ \cup {95}
\* the line terminators that . does not match
LineTerminators == {10, 13, 8232, 8233}

(***************************************************************************)
(* Regular expressions.  A pattern is a tree; Ends(r, s, i, ic) is the set *)
(* of positions j such that r matches s[i .. j-1] (ic: the i flag).  A     *)
(* RegExp test succeeds iff some alternative of the backtracking matcher   *)
(* succeeds, that is iff the set of end positions is not empty.            *)
(***************************************************************************)
Lit(str) == [t |-> "lit", s |-> str]
Cls(set) == [t |-> "cls", neg |-> FALSE, set |-> set]
NCls(set) == [t |-> "cls", neg |-> TRUE, set |-> set]
Cat(rs) == [t |-> "cat", rs |-> rs]
Alt(rs) == [t |-> "alt", rs |-> rs]
Rep(r, lo, hi) == [t |-> "rep", r |-> r, lo |-> lo, hi |-> hi]
\* -1 stands for "no upper limit"
Star(r) == Rep(r, 0, -1)
Plus(r) == Rep(r, 1, -1)
Opt(r) == Rep(r, 0, 1)
Eos == [t |-> "eos"]
Dot == NCls(LineTerminators)

InClass(r, c, ic) ==
  LET hit == IF ic THEN \E m \in r.set : Fold(m) = Fold(c) ELSE c \in r.set
  IN hit # r.neg

LitAt(str, s, i, ic) ==
  /\ i + Len(str) - 1 <= Len(s)
  /\ \A k \in 1..Len(str) :
       IF ic THEN Fold(str[k]) = Fold(s[i + k - 1]) ELSE str[k] = s[i + k - 1]

RECURSIVE Ends(_, _, _, _)
RECURSIVE CatEnds(_, _, _, _, _)
RECURSIVE RepEnds(_, _, _, _, _, _)

Ends(r, s, i, ic) ==
  CASE r.t = "lit" -> IF LitAt(r.s, s, i, ic) THEN {i + Len(r.s)} ELSE {}
    [] r.t = "cls" -> IF i <= Len(s) /\ InClass(r, s[i], ic) THEN {i + 1} ELSE {}
    [] r.t = "cat" -> CatEnds(r.rs, 1, s, i, ic)
    [] r.t = "alt" -> UNION {Ends(r.rs[k], s, i, ic) : k \in 1..Len(r.rs)}
    [] r.t = "rep" -> RepEnds(r.r, s, i, ic, r.lo, r.hi)
    [] r.t = "eos" -> IF i = Len(s) + 1 THEN {i} ELSE {}

CatEnds(rs, k, s, i, ic) ==
  IF k > Len(rs) THEN {i}
  ELSE UNION {CatEnds(rs, k + 1, s, j, ic) : j \in Ends(rs[k], s, i, ic)}

RepEnds(r, s, i, ic, lo, hi) ==
  LET stop == IF lo = 0 THEN {i} ELSE {}
      lo1 == IF lo = 0 THEN 0 ELSE lo - 1
      hi1 == IF hi = -1 THEN -1 ELSE hi - 1
  IN IF hi = 0 THEN stop
     ELSE stop \cup UNION {RepEnds(r, s, j, ic, lo1, hi1) :
                             j \in Ends(r, s, i, ic) \ {i}}

\* RegExp.prototype.test for a pattern that starts with ^ (no g flag).
Test(r, s, ic) == Ends(r, s, 1, ic) # {}

\* The positions at which an unanchored pattern matches.
MatchStarts(r, s, ic) == {i \in 1..(Len(s) + 1) : Ends(r, s, i, ic) # {}}

SetMax(S) == CHOOSE m \in S : \A n \in S : n <= m
SetMin(S) == CHOOSE m \in S : \A n \in S : m <= n

(***************************************************************************)
(* decodeURIComponent (ECMAScript Decode with an empty reserved set).      *)
(* The result is [ok |-> TRUE, s |-> decoded] or, where the built-in       *)
(* throws URIError, [ok |-> FALSE, s |-> <<>>].                            *)
(***************************************************************************)
IsHex(c) == c \in Digits \/ c \in 65..70 \/ c \in 97..102
HexVal(c) == IF c \in Digits THEN c - 48
             ELSE IF c \in 65..70 THEN c - 55 ELSE c - 87

\* Whether %HH stands at position k of s, and the octet it denotes.
IsEscapeAt(s, k) ==
  k + 2 <= Len(s) /\ s[k] = 37 /\ IsHex(s[k + 1]) /\ IsHex(s[k + 2])
OctetAt(s, k) == 16 * HexVal(s[k + 1]) + HexVal(s[k + 2])

URIError == [s |-> <<>>, ok |-> FALSE]

\* The number of octets of the UTF-8 sequence that the leading octet b
\* announces; 0 where b cannot lead a sequence.
Utf8Length(b) ==
  IF b < 128 THEN 1
  ELSE IF b >= 192 /\ b <= 223 THEN 2
  ELSE IF b >= 224 /\ b <= 239 THEN 3
  ELSE IF b >= 240 /\ b <= 247 THEN 4
  ELSE 0

\* The code point of the n-octet sequence of escapes that starts at k.
Utf8CodePoint(s, k, n) ==
  LET b == OctetAt(s, k)
      c(j) == OctetAt(s, k + 3 * j) % 64
  IN CASE n = 2 -> (b % 32) * 64 + c(1)
       [] n = 3 -> (b % 16) * 4096 + c(1) * 64 + c(2)
       [] n = 4 -> (b % 8) * 262144 + c(1) * 4096 + c(2) * 64 + c(3)

\* No overlong form, no surrogate, nothing above U+10FFFF.
Utf8Valid(v, n) ==
  CASE n = 2 -> v >= 128
    [] n = 3 -> v >= 2048 /\ ~(v >= 55296 /\ v <= 57343)
    [] n = 4 -> v >= 65536 /\ v <= 1114111

\* A code point as UTF-16 code units.
Utf16(v) ==
  IF v < 65536 THEN <<v>>
  ELSE <<55296 + ((v - 65536) \div 1024), 56320 + ((v - 65536) % 1024)>>

RECURSIVE DecodeFrom(_, _)
DecodeFrom(s, k) ==
  IF k > Len(s) THEN [ok |-> TRUE, s |-> <<>>]
  ELSE IF s[k] # 37 THEN
    LET r == DecodeFrom(s, k + 1)
    IN IF r.ok THEN [ok |-> TRUE, s |-> <<s[k]>> \o r.s] ELSE URIError
  ELSE IF ~IsEscapeAt(s, k) THEN URIError
  ELSE
    LET b == OctetAt(s, k)
        n == Utf8Length(b)
    IN IF n = 0 THEN URIError
       ELSE IF n = 1 THEN
         LET r == DecodeFrom(s, k + 3)
         IN IF r.ok THEN [ok |-> TRUE, s |-> <<b>> \o r.s] ELSE URIError
       ELSE IF \E j \in 1..(n - 1) :
                 \/ ~IsEscapeAt(s, k + 3 * j)
                 \/ OctetAt(s, k + 3 * j) < 128
                 \/ OctetAt(s, k + 3 * j) > 191
         THEN URIError
       ELSE IF ~Utf8Valid(Utf8CodePoint(s, k, n), n) THEN URIError
       ELSE
         LET r == DecodeFrom(s, k + 3 * n)
         IN IF r.ok
            THEN [ok |-> TRUE, s |-> Utf16(Utf8CodePoint(s, k, n)) \o r.s]
            ELSE URIError

decodeURIComponent(s) == DecodeFrom(s, 1)

(***************************************************************************)
(* The Pattern Library                                                     *)
(***************************************************************************)

\* new RegExp('^(?:audio/(?:...)|font/\\w+|image/(?:...)|video/(?:...))' +
\*            '(?:;\\w+=(?:\\w+|"[\\w;,= ]+"))*$', 'i')
SAFE_MIME_TYPE_PATTERN_ ==
  Cat(<<
    Alt(<<
      Cat(<<Lit(<<97, 117, 100, 105, 111, 47>> (* "audio/" *)),
            Alt(<<Lit(<<51, 103, 112, 112, 50>> (* "3gpp2" *)), Lit(<<51, 103, 112, 112>> (* "3gpp" *)), Lit(<<97, 97, 99>> (* "aac" *)), Lit(<<76, 49, 54>> (* "L16" *)),
                  Lit(<<109, 105, 100, 105>> (* "midi" *)), Lit(<<109, 112, 51>> (* "mp3" *)), Lit(<<109, 112, 52>> (* "mp4" *)), Lit(<<109, 112, 101, 103>> (* "mpeg" *)),
                  Lit(<<111, 103, 97>> (* "oga" *)), Lit(<<111, 103, 103>> (* "ogg" *)), Lit(<<111, 112, 117, 115>> (* "opus" *)), Lit(<<120, 45, 109, 52, 97>> (* "x-m4a" *)),
                  Lit(<<120, 45, 109, 97, 116, 114, 111, 115, 107, 97>> (* "x-matroska" *)), Lit(<<120, 45, 119, 97, 118>> (* "x-wav" *)), Lit(<<119, 97, 118>> (* "wav" *)),
                  Lit(<<119, 101, 98, 109>> (* "webm" *))>>)>>),
      Cat(<<Lit(<<102, 111, 110, 116, 47>> (* "font/" *)), Plus(Cls(WordChars))>>),
      Cat(<<Lit(<<105, 109, 97, 103, 101, 47>> (* "image/" *)),
            Alt(<<Lit(<<98, 109, 112>> (* "bmp" *)), Lit(<<103, 105, 102>> (* "gif" *)), Lit(<<106, 112, 101, 103>> (* "jpeg" *)), Lit(<<106, 112, 103>> (* "jpg" *)),
                  Lit(<<112, 110, 103>> (* "png" *)), Lit(<<116, 105, 102, 102>> (* "tiff" *)), Lit(<<119, 101, 98, 112>> (* "webp" *)), Lit(<<120, 45, 105, 99, 111, 110>> (* "x-icon" *))>>)>>),
      Cat(<<Lit(<<118, 105, 100, 101, 111, 47>> (* "video/" *)),
            Alt(<<Lit(<<109, 112, 101, 103>> (* "mpeg" *)), Lit(<<109, 112, 52>> (* "mp4" *)), Lit(<<111, 103, 103>> (* "ogg" *)), Lit(<<119, 101, 98, 109>> (* "webm" *)),
                  Lit(<<113, 117, 105, 99, 107, 116, 105, 109, 101>> (* "quicktime" *)), Lit(<<120, 45, 109, 97, 116, 114, 111, 115, 107, 97>> (* "x-matroska" *))>>)>>)>>),
    Star(Cat(<<Lit(<<59>> (* ";" *)), Plus(Cls(WordChars)), Lit(<<61>> (* "=" *)),
               Alt(<<Plus(Cls(WordChars)),
                     Cat(<<Lit(<<34>>),
                           Plus(Cls(WordChars \cup {59, 44, 61, 32})),
                           Lit(<<34>>)>>)>>)>>)),
    Eos>>)

\* /^data:(.*);base64,[a-z0-9+\/]+=*$/i ; DataUrlMime is the group (.*)
DataUrlMime == Star(Dot)
DATA_URL_PATTERN_ ==
  Cat(<<Lit(<<100, 97, 116, 97, 58>> (* "data:" *)), DataUrlMime, Lit(<<59, 98, 97, 115, 101, 54, 52, 44>> (* ";base64," *)),
        Plus(Cls(LowerAZ \cup Digits \cup {43, 47})), Star(Lit(<<61>> (* "=" *))), Eos>>)

\* new RegExp('^sip[s]?:[+a-z0-9_.!$%&\'*\\/=^`{|}~-]+@' +
\*            '([a-z0-9-]+\\.)+[a-z0-9]{2,63}$', 'i')
SIP_URL_PATTERN_ ==
  Cat(<<Lit(<<115, 105, 112>> (* "sip" *)), Opt(Cls({115})), Lit(<<58>> (* ":" *)),
        Plus(Cls(LowerAZ \cup Digits \cup
                 {43, 95, 46, 33, 36, 37, 38, 39, 42, 47, 61, 94, 96,
                  123, 124, 125, 126, 45})),
        Lit(<<64>> (* "@" *)),
        Plus(Cat(<<Plus(Cls(LowerAZ \cup Digits \cup {45})), Lit(<<46>> (* "." *))>>)),
        Rep(Cls(LowerAZ \cup Digits), 2, 63),
        Eos>>)

\* /^(?:(?:https?|mailto|ftp):|[^:/?#]*(?:[/?#]|$))/i
SAFE_URL_PATTERN_ ==
  Alt(<<
    Cat(<<Alt(<<Cat(<<Lit(<<104, 116, 116, 112>> (* "http" *)), Opt(Lit(<<115>> (* "s" *)))>>), Lit(<<109, 97, 105, 108, 116, 111>> (* "mailto" *)),
                Lit(<<102, 116, 112>> (* "ftp" *))>>),
          Lit(<<58>> (* ":" *))>>),
    Cat(<<Star(NCls({58, 47, 63, 35})), Alt(<<Cls({47, 63, 35}), Eos>>)>>)>>)

\* goog.html.SafeUrl.SAFE_URL_PATTERN = goog.html.SAFE_URL_PATTERN_
SAFE_URL_PATTERN == SAFE_URL_PATTERN_

(***************************************************************************)
(* JavaScript values that callers hand to the library.                     *)
(*   ref     a SafeUrl instance made by the SafeUrl constructor: heap[id]  *)
(*   str     a primitive string                                            *)
(*   sub     an instance of a subclass of SafeUrl whose wrapped-value      *)
(*           field holds s                                                 *)
(*   forged  a plain object with the same field, holding s, that is not    *)
(*           an instance of SafeUrl                                        *)
(*   const   a goog.string.Const wrapping s                                *)
(*   tru     a goog.html.TrustedResourceUrl wrapping s                     *)
(*   null, undefined                                                       *)
(*   blob    a Blob whose type is s                                        *)
(*   mediasource   a MediaSource                                           *)
(***************************************************************************)
Ref(i) == [s |-> <<>>, k |-> "ref", id |-> i]
Str(s) == [s |-> s, k |-> "str", id |-> 0]
SubclassInstance(s) == [s |-> s, k |-> "sub", id |-> 0]
Forged(s) == [s |-> s, k |-> "forged", id |-> 0]
Const(s) == [s |-> s, k |-> "const", id |-> 0]
TrustedResourceUrl(s) == [s |-> s, k |-> "tru", id |-> 0]
Null == [s |-> <<>>, k |-> "null", id |-> 0]
Undefined == [s |-> <<>>, k |-> "undefined", id |-> 0]
Blob(type) == [s |-> type, k |-> "blob", id |-> 0]
MediaSource == [s |-> <<>>, k |-> "mediasource", id |-> 0]

\* goog.html.SafeUrl.INNOCUOUS_STRING = 'about:invalid#zClosurez'
INNOCUOUS_STRING == <<97, 98, 111, 117, 116, 58, 105, 110, 118, 97, 108, 105, 100, 35, 122, 67, 108, 111, 115, 117, 114, 101, 122>> (* "about:invalid#zClosurez" *)
\* the marker that unwrap returns when its run-time type check fails
TYPE_ERROR_STRING == <<116, 121, 112, 101, 95, 101, 114, 114, 111, 114, 58, 83, 97, 102, 101, 85, 114, 108>> (* "type_error:SafeUrl" *)

\* goog.html.SafeUrl.CONSTRUCTOR_TOKEN_PRIVATE_ = {} : an object of this
\* file; OtherTokens are values that code outside the file can pass.
CONSTRUCTOR_TOKEN_PRIVATE_ == "CONSTRUCTOR_TOKEN_PRIVATE_"
OtherTokens == {"{}", "undefined", "null"}

VARIABLES
  heap,      \* the SafeUrl instances in existence, in order of construction:
             \* heap[i].value is privateDoNotAccessOrElseSafeUrlWrappedValue_
  made,      \* history: made[i] names the builder that constructed heap[i]
  call,      \* the last public call: operation and arguments
  ret,       \* what the last call returned (Undefined when it threw)
  thrown,    \* the exception that the last call raised, or "none"
  asserted,  \* whether the last call reported an assertion failure
  debug,     \* goog.asserts.ENABLE_ASSERTS of this build
  reg,       \* the calls made so far to the object-URL registry
             \* (goog.fs.url), in order: [op, url]
  sets       \* the goog.structs.StringSet instances in existence, in order
             \* of construction: sets[i] is the object in elements_

vars == <<heap, made, call, ret, thrown, asserted, debug, reg, sets>>

\* The part of the state that the builders read and extend.
St == [heap |-> heap, made |-> made, reg |-> reg]

\* How a call ends: returning r, or throwing e; a is whether an assertion
\* failure was reported on the way.
NoThrow(st, r, a) ==
  [heap |-> st.heap, made |-> st.made, reg |-> st.reg, ret |-> r,
   thrown |-> "none", asserted |-> a]
Throw(st, e, a) ==
  [heap |-> st.heap, made |-> st.made, reg |-> st.reg, ret |-> Undefined,
   thrown |-> e, asserted |-> a]

(***************************************************************************)
(* The Trusted Value Core                                                  *)
(***************************************************************************)

\* constructor(value, token): the instance that new goog.html.SafeUrl makes.
\* (ForgetTokenSafeUrl: a constructor that stores value whatever the token)
ForgetTokenSafeUrl(value, token) == [value |-> value]
SafeUrl(value, token) ==
  [value |-> IF token = CONSTRUCTOR_TOKEN_PRIVATE_ THEN value ELSE <<>>]

\* new goog.html.SafeUrl(value, token): the instance joins the heap; by is
\* the history entry.
New(st, value, token, by) ==
  NoThrow([heap |-> Append(st.heap, SafeUrl(value, token)),
           made |-> Append(st.made, by), reg |-> st.reg],
          Ref(Len(st.heap) + 1), FALSE)

\* goog.html.SafeUrl.createSafeUrlSecurityPrivateDoNotAccessOrElse(url);
\* by records the builder on whose behalf it is called.
createSafeUrlSecurityPrivateDoNotAccessOrElse(st, url, by) ==
  New(st, url, CONSTRUCTOR_TOKEN_PRIVATE_, by)

\* safeUrl instanceof goog.html.SafeUrl
InstanceOfSafeUrl(v) == v.k \in {"ref", "sub"}
\* safeUrl.constructor === goog.html.SafeUrl
ConstructorIsSafeUrl(v) == v.k = "ref"
\* v.privateDoNotAccessOrElseSafeUrlWrappedValue_
WrappedValue(st, v) == IF v.k = "ref" THEN st.heap[v.id].value ELSE v.s

\* SafeUrl.prototype.getTypedStringValue
getTypedStringValue(st, v) == WrappedValue(st, v)

\* typeof url == 'object' && url.implementsGoogStringTypedString
ImplementsTypedString(v) == v.k \in {"ref", "sub", "const", "tru"}

\* String(v)
StringOf(st, v) ==
  CASE v.k = "str" -> v.s
    [] v.k \in {"ref", "sub"} -> WrappedValue(st, v)
    [] v.k = "forged" -> <<91, 111, 98, 106, 101, 99, 116, 32, 79, 98, 106, 101, 99, 116, 93>> (* "[object Object]" *)
    [] v.k = "null" -> <<110, 117, 108, 108>> (* "null" *)
    [] v.k = "undefined" -> <<117, 110, 100, 101, 102, 105, 110, 101, 100>> (* "undefined" *)
    [] OTHER -> v.s

\* goog.asserts.fail(message): reports an assertion failure, which is fatal
\* (throws goog.asserts.AssertionError) in a build with assertions enabled.
fail(st, dbg) ==
  IF dbg THEN Throw(st, "AssertionError", TRUE) ELSE NoThrow(st, Undefined, TRUE)

\* goog.asserts.assert(condition, message): reports a failure when the
\* condition is false and hands the condition back; it does not abort.
assert(st, condition) == NoThrow(st, condition, ~condition)

\* goog.string.Const.unwrap / goog.html.TrustedResourceUrl.unwrap
ConstUnwrap(c) == c.s
TrustedResourceUrlUnwrap(r) == r.s

\* goog.html.SafeUrl.unwrap(safeUrl)
\* (InstanceofOnlyUnwrap: the same without the constructor comparison)
InstanceofOnlyUnwrap(st, dbg, safeUrl) ==
  IF InstanceOfSafeUrl(safeUrl)
  THEN NoThrow(st, Str(WrappedValue(st, safeUrl)), FALSE)
  ELSE LET f == fail(st, dbg)
       IN IF f.thrown # "none" THEN f
          ELSE NoThrow(st, Str(TYPE_ERROR_STRING), TRUE)
unwrap(st, dbg, safeUrl) ==
  IF InstanceOfSafeUrl(safeUrl) /\ ConstructorIsSafeUrl(safeUrl)
  THEN NoThrow(st, Str(WrappedValue(st, safeUrl)), FALSE)
  ELSE LET f == fail(st, dbg)
       IN IF f.thrown # "none" THEN f
          ELSE NoThrow(st, Str(TYPE_ERROR_STRING), TRUE)

\* goog.html.SafeUrl.fromConstant(url)
\* (ScriptRejectingFromConstant: the same, except that a javascript: string
\* is replaced by INNOCUOUS_STRING)
ScriptRejectingFromConstant(st, url) ==
  createSafeUrlSecurityPrivateDoNotAccessOrElse(
    st,
    IF /\ Len(ConstUnwrap(url)) >= 11
       /\ \A i \in 1..11 : Fold(ConstUnwrap(url)[i]) = Fold(<<106, 97, 118, 97, 115, 99, 114, 105, 112, 116, 58>> (* "javascript:" *)[i])
    THEN INNOCUOUS_STRING
    ELSE ConstUnwrap(url),
    "fromConstant")

fromConstant(st, url) ==
  createSafeUrlSecurityPrivateDoNotAccessOrElse(st, ConstUnwrap(url), "fromConstant")

\* goog.html.SafeUrl.fromTrustedResourceUrl(trustedResourceUrl)
fromTrustedResourceUrl(st, trustedResourceUrl) ==
  createSafeUrlSecurityPrivateDoNotAccessOrElse(
    st, TrustedResourceUrlUnwrap(trustedResourceUrl), "fromTrustedResourceUrl")

\* goog.html.SafeUrl.INNOCUOUS_URL and goog.html.SafeUrl.ABOUT_BLANK are the
\* first two instances that the file constructs.
INNOCUOUS_URL == Ref(1)
ABOUT_BLANK == Ref(2)
Published ==
  createSafeUrlSecurityPrivateDoNotAccessOrElse(
    createSafeUrlSecurityPrivateDoNotAccessOrElse(
      [heap |-> <<>>, made |-> <<>>, reg |-> <<>>], INNOCUOUS_STRING,
      "INNOCUOUS_URL"),
    <<97, 98, 111, 117, 116, 58, 98, 108, 97, 110, 107>> (* "about:blank" *), "ABOUT_BLANK")

(***************************************************************************)
(* The MIME gate and the data-URL validator                                *)
(***************************************************************************)

\* goog.html.SafeUrl.isSafeMimeType(mimeType)
isSafeMimeType(mimeType) == Test(SAFE_MIME_TYPE_PATTERN_, mimeType, TRUE)

(***************************************************************************)
(* Object URLs                                                             *)
(***************************************************************************)

\* The n-th URL string that the registry mints; each one is new.
MintedUrl(n) == <<98, 108, 111, 98, 58>> (* "blob:" *) \o <<48 + n>>

\* how many URLs the registry has minted
Minted(st) == Cardinality({i \in 1..Len(st.reg) : st.reg[i].op = "create"})

\* goog.fs.url.createObjectUrl(obj): mints a URL string and returns it
createObjectUrl(st) ==
  LET url == MintedUrl(Minted(st) + 1)
  IN NoThrow([st EXCEPT !.reg = Append(st.reg, [op |-> "create", url |-> url])],
             Str(url), FALSE)

\* goog.fs.url.revokeObjectUrl(url): releases the handle of url
RegistryRevoke(st, url) ==
  NoThrow([st EXCEPT !.reg = Append(st.reg, [op |-> "revoke", url |-> url])],
          Undefined, FALSE)

\* goog.html.SafeUrl.fromBlob(blob)
\* (UngatedFromBlob: the same without the MIME type test)
UngatedFromBlob(st, blob) ==
  LET created == createObjectUrl(st)
  IN createSafeUrlSecurityPrivateDoNotAccessOrElse(
       created, created.ret.s, "fromBlob")
fromBlob(st, blob) ==
  IF isSafeMimeType(blob.s)
  THEN LET created == createObjectUrl(st)
       IN createSafeUrlSecurityPrivateDoNotAccessOrElse(
            created, created.ret.s, "fromBlob")
  ELSE createSafeUrlSecurityPrivateDoNotAccessOrElse(
         st, INNOCUOUS_STRING, "fromBlob")

\* goog.html.SafeUrl.revokeObjectUrl(safeUrl); a value without a
\* getTypedStringValue method makes the call throw a TypeError.
\* (UnconditionalRevokeObjectUrl: the same without the INNOCUOUS_STRING
\* test; ClearingRevokeObjectUrl: one that also overwrites the payload of
\* safeUrl with INNOCUOUS_STRING)
ClearingRevokeObjectUrl(st, safeUrl) ==
  IF ~InstanceOfSafeUrl(safeUrl) THEN Throw(st, "TypeError", FALSE)
  ELSE LET url == getTypedStringValue(st, safeUrl)
           after == IF safeUrl.k = "ref"
                    THEN [st EXCEPT !.heap[safeUrl.id].value = INNOCUOUS_STRING]
                    ELSE st
       IN IF url # INNOCUOUS_STRING THEN RegistryRevoke(after, url)
          ELSE NoThrow(st, Undefined, FALSE)
UnconditionalRevokeObjectUrl(st, safeUrl) ==
  IF ~InstanceOfSafeUrl(safeUrl) THEN Throw(st, "TypeError", FALSE)
  ELSE RegistryRevoke(st, getTypedStringValue(st, safeUrl))
revokeObjectUrl(st, safeUrl) ==
  IF ~InstanceOfSafeUrl(safeUrl) THEN Throw(st, "TypeError", FALSE)
  ELSE LET url == getTypedStringValue(st, safeUrl)
       IN IF url # INNOCUOUS_STRING THEN RegistryRevoke(st, url)
          ELSE NoThrow(st, Undefined, FALSE)

\* goog.html.SafeUrl.fromMediaSource(mediaSource), in a browser that has
\* MediaSource: the assertion 'MediaSource' in goog.global holds.
fromMediaSource(st, mediaSource) ==
  LET supported == assert(st, TRUE)
      made1 ==
        IF mediaSource.k = "mediasource"
        THEN LET created == createObjectUrl(st)
             IN createSafeUrlSecurityPrivateDoNotAccessOrElse(
                  created, created.ret.s, "fromMediaSource")
        ELSE createSafeUrlSecurityPrivateDoNotAccessOrElse(
               st, INNOCUOUS_STRING, "fromMediaSource")
  IN [made1 EXCEPT !.asserted = supported.asserted]

\* dataUrl.replace(/(%0A|%0D)/g, '')
RECURSIVE RemoveCrLfEscapes(_)
RemoveCrLfEscapes(s) ==
  IF s = <<>> THEN <<>>
  ELSE IF LitAt(<<37, 48, 65>> (* "%0A" *), s, 1, FALSE) \/ LitAt(<<37, 48, 68>> (* "%0D" *), s, 1, FALSE)
       THEN RemoveCrLfEscapes(Sub(s, 4, Len(s)))
       ELSE <<Head(s)>> \o RemoveCrLfEscapes(Tail(s))

\* goog.html.SafeUrl.tryFromDataUrl(dataUrl)
\* (UnfilteredTryFromDataUrl: the same, wrapping the string as given)
UnfilteredTryFromDataUrl(st, dataUrl) ==
  LET url == StringOf(st, dataUrl)
  IN IF Test(DATA_URL_PATTERN_, RemoveCrLfEscapes(url), TRUE)
     THEN createSafeUrlSecurityPrivateDoNotAccessOrElse(st, url, "tryFromDataUrl")
     ELSE NoThrow(st, Null, FALSE)
tryFromDataUrl(st, dataUrl) ==
  LET filteredDataUrl == RemoveCrLfEscapes(StringOf(st, dataUrl))
  IN IF Test(DATA_URL_PATTERN_, filteredDataUrl, TRUE)
     THEN createSafeUrlSecurityPrivateDoNotAccessOrElse(
            st, filteredDataUrl, "tryFromDataUrl")
     ELSE NoThrow(st, Null, FALSE)

\* a || b where a is null or an object
OrElse(a, b) == IF a.ret = Null THEN [a EXCEPT !.ret = b] ELSE a

\* goog.html.SafeUrl.fromDataUrl(dataUrl)
fromDataUrl(st, dataUrl) == OrElse(tryFromDataUrl(st, dataUrl), INNOCUOUS_URL)

(***************************************************************************)
(* The scheme validators                                                   *)
(***************************************************************************)

\* goog.string.internal.caseInsensitiveStartsWith(str, prefix)
caseInsensitiveStartsWith(str, prefix) == LitAt(prefix, str, 1, TRUE)

\* The shape shared by the prefix validators: keep the url when the test
\* passed, else wrap INNOCUOUS_STRING.
\* (KeepAlways: the same without the substitution)
KeepAlways(st, passed, url, by) ==
  createSafeUrlSecurityPrivateDoNotAccessOrElse(st, url, by)
KeepOrInnocuous(st, passed, url, by) ==
  createSafeUrlSecurityPrivateDoNotAccessOrElse(
    st, IF passed THEN url ELSE INNOCUOUS_STRING, by)

\* goog.html.SafeUrl.fromTelUrl(telUrl)
fromTelUrl(st, telUrl) ==
  KeepOrInnocuous(st, caseInsensitiveStartsWith(telUrl, <<116, 101, 108, 58>> (* "tel:" *)), telUrl,
                  "fromTelUrl")

\* goog.html.SafeUrl.fromSipUrl(sipUrl): decodeURIComponent is not guarded,
\* so its URIError leaves the function.
fromSipUrl(st, sipUrl) ==
  LET decoded == decodeURIComponent(sipUrl)
  IN IF ~decoded.ok THEN Throw(st, "URIError", FALSE)
     ELSE KeepOrInnocuous(st, Test(SIP_URL_PATTERN_, decoded.s, TRUE), sipUrl,
                          "fromSipUrl")

\* goog.html.SafeUrl.fromFacebookMessengerUrl(facebookMessengerUrl)
fromFacebookMessengerUrl(st, facebookMessengerUrl) ==
  KeepOrInnocuous(
    st, caseInsensitiveStartsWith(facebookMessengerUrl, <<102, 98, 45, 109, 101, 115, 115, 101, 110, 103, 101, 114, 58, 47, 47, 115, 104, 97, 114, 101>> (* "fb-messenger://share" *)),
    facebookMessengerUrl, "fromFacebookMessengerUrl")

\* goog.html.SafeUrl.fromWhatsAppUrl(whatsAppUrl)
fromWhatsAppUrl(st, whatsAppUrl) ==
  KeepOrInnocuous(st, caseInsensitiveStartsWith(whatsAppUrl, <<119, 104, 97, 116, 115, 97, 112, 112, 58, 47, 47, 115, 101, 110, 100>> (* "whatsapp://send" *)),
                  whatsAppUrl, "fromWhatsAppUrl")

\* goog.html.SafeUrl.fromSshUrl(sshUrl)
\* (SchemeOnlyFromSshUrl: the same with the prefix 'ssh:')
SchemeOnlyFromSshUrl(st, sshUrl) ==
  KeepOrInnocuous(st, caseInsensitiveStartsWith(sshUrl, <<115, 115, 104, 58>> (* "ssh:" *)), sshUrl,
                  "fromSshUrl")
fromSshUrl(st, sshUrl) ==
  KeepOrInnocuous(st, caseInsensitiveStartsWith(sshUrl, <<115, 115, 104, 58, 47, 47>> (* "ssh://" *)), sshUrl,
                  "fromSshUrl")

\* /[?&]body=/ , the pattern of both matches in isSmsUrlBodyValid_
SmsBodyParam == Cat(<<Cls({63, 38}), Lit(<<98, 111, 100, 121, 61>> (* "body=" *))>>)
\* ([^&]*) , the group of the second match
SmsBodyGroup == Star(NCls({38}))
\* /^(?:[a-z0-9\-_.~]|%[0-9a-f]{2})+$/i
SmsBodyValue ==
  Cat(<<Plus(Alt(<<Cls(LowerAZ \cup Digits \cup {45, 95, 46, 126}),
                   Cat(<<Lit(<<37>> (* "%" *)),
                         Rep(Cls(Digits \cup 97..102), 2, 2)>>)>>)),
        Eos>>)

\* smsUrl.indexOf('#'), 0-based, -1 when there is none
IndexOfHash(s) ==
  LET at == {i \in 1..Len(s) : s[i] = 35}
  IN IF at = {} THEN -1 ELSE SetMin(at) - 1

\* goog.html.SafeUrl.isSmsUrlBodyValid_(smsUrl): [thrown, ret].  The count
\* of body parameters ignores case, the extraction of the value does not:
\* when it finds nothing, indexing its null result throws a TypeError.
isSmsUrlBodyValid_(smsUrlArg) ==
  LET hash == IndexOfHash(smsUrlArg)
      smsUrl == IF hash > 0 THEN Sub(smsUrlArg, 1, hash) ELSE smsUrlArg
      bodyParams == MatchStarts(SmsBodyParam, smsUrl, TRUE)
      found == MatchStarts(SmsBodyParam, smsUrl, FALSE)
      start == SetMin(found) + 6
      bodyValue ==
        Sub(smsUrl, start, SetMax(Ends(SmsBodyGroup, smsUrl, start, FALSE)) - 1)
  IN IF bodyParams = {} THEN [thrown |-> "none", ret |-> TRUE]
     ELSE IF Cardinality(bodyParams) > 1 THEN [thrown |-> "none", ret |-> FALSE]
     ELSE IF found = {} THEN [thrown |-> "TypeError", ret |-> FALSE]
     ELSE IF bodyValue = <<>> THEN [thrown |-> "none", ret |-> TRUE]
     ELSE IF ~decodeURIComponent(bodyValue).ok
          THEN [thrown |-> "none", ret |-> FALSE]
     ELSE [thrown |-> "none", ret |-> Test(SmsBodyValue, bodyValue, TRUE)]

\* goog.html.SafeUrl.fromSmsUrl(smsUrl)
fromSmsUrl(st, smsUrl) ==
  IF ~caseInsensitiveStartsWith(smsUrl, <<115, 109, 115, 58>> (* "sms:" *))
  THEN KeepOrInnocuous(st, FALSE, smsUrl, "fromSmsUrl")
  ELSE LET valid == isSmsUrlBodyValid_(smsUrl)
       IN IF valid.thrown # "none" THEN Throw(st, valid.thrown, FALSE)
          ELSE KeepOrInnocuous(st, valid.ret, smsUrl, "fromSmsUrl")

(***************************************************************************)
(* The browser-extension sanitizers                                        *)
(***************************************************************************)

\* The caller's extensionId: one goog.string.Const (single) or an Array of
\* them; ids are the strings they wrap.
OneExtensionId(id) == [single |-> TRUE, ids |-> <<id>>]
ExtensionIdArray(ids) == [single |-> FALSE, ids |-> ids]

\* /^<scheme>:\/\/([^\/]+)\// : scheme.exec(url)[1], or Null without a match.
\* The group is greedy, so it is the longest run that a '/' follows.
\* (NoSlashExtensionIdOf: the same pattern without its closing '/')
NoSlashExtensionIdOf(scheme, url) ==
  LET ends == Ends(Cat(<<Lit(scheme), Plus(NCls({47}))>>), url, 1, FALSE)
  IN IF ends = {} THEN Null
     ELSE Str(Sub(url, Len(scheme) + 1, SetMax(ends) - 1))
ExtensionIdOf(scheme, url) ==
  LET ends == {j \in Ends(Cat(<<Lit(scheme), Plus(NCls({47}))>>), url, 1, FALSE) :
                 Ends(Lit(<<47>> (* "/" *)), url, j, FALSE) # {}}
  IN IF ends = {} THEN Null
     ELSE Str(Sub(url, Len(scheme) + 1, SetMax(ends) - 1))

\* acceptedExtensionIds.indexOf(extractedExtensionId) == -1
NotAccepted(acceptedExtensionIds, extracted) ==
  \A k \in 1..Len(acceptedExtensionIds) : acceptedExtensionIds[k] # extracted

\* goog.html.SafeUrl.sanitizeExtensionUrl_(scheme, url, extensionId)
sanitizeExtensionUrl_(st, scheme, url, extensionId, by) ==
  LET matches == ExtensionIdOf(scheme, url)
      acceptedExtensionIds ==
        IF extensionId.single THEN <<ConstUnwrap(Const(extensionId.ids[1]))>>
        ELSE [k \in 1..Len(extensionId.ids) |->
                ConstUnwrap(Const(extensionId.ids[k]))]
  IN IF matches = Null THEN KeepOrInnocuous(st, FALSE, url, by)
     ELSE KeepOrInnocuous(st, ~NotAccepted(acceptedExtensionIds, matches.s),
                          url, by)

\* goog.html.SafeUrl.sanitizeChromeExtensionUrl(url, extensionId)
sanitizeChromeExtensionUrl(st, url, extensionId) ==
  sanitizeExtensionUrl_(st, <<99, 104, 114, 111, 109, 101, 45, 101, 120, 116, 101, 110, 115, 105, 111, 110, 58, 47, 47>> (* "chrome-extension://" *), url, extensionId,
                        "sanitizeChromeExtensionUrl")

\* goog.html.SafeUrl.sanitizeFirefoxExtensionUrl(url, extensionId)
sanitizeFirefoxExtensionUrl(st, url, extensionId) ==
  sanitizeExtensionUrl_(st, <<109, 111, 122, 45, 101, 120, 116, 101, 110, 115, 105, 111, 110, 58, 47, 47>> (* "moz-extension://" *), url, extensionId,
                        "sanitizeFirefoxExtensionUrl")

\* goog.html.SafeUrl.sanitizeEdgeExtensionUrl(url, extensionId)
sanitizeEdgeExtensionUrl(st, url, extensionId) ==
  sanitizeExtensionUrl_(st, <<109, 115, 45, 98, 114, 111, 119, 115, 101, 114, 45, 101, 120, 116, 101, 110, 115, 105, 111, 110, 58, 47, 47>> (* "ms-browser-extension://" *), url, extensionId,
                        "sanitizeEdgeExtensionUrl")

(***************************************************************************)
(* The generic sanitizer                                                   *)
(***************************************************************************)

\* url instanceof SafeUrl is handled by the callers below; this is the
\* coercion of any other argument to a string.  For null, typeof is
\* 'object' and reading its implementsGoogStringTypedString throws a
\* TypeError, which the callers below let through.
CoerceUrl(st, url) ==
  IF ImplementsTypedString(url) THEN getTypedStringValue(st, url)
  ELSE StringOf(st, url)

\* goog.html.SafeUrl.trySanitize(url)
\* (CaseSensitiveTrySanitize: the pattern without its i flag;
\* RevalidatingTrySanitize: without the instanceof shortcut;
\* NoDataUrlTrySanitize: without the data-URL fallback;
\* GlobalFlagTrySanitize: the pattern with the g flag, whose test right after
\* a test that matched starts where that match ended, and fails)
CaseSensitiveTrySanitize(st, urlArg) ==
  IF InstanceOfSafeUrl(urlArg) THEN NoThrow(st, urlArg, FALSE)
  ELSE IF urlArg = Null THEN Throw(st, "TypeError", FALSE)
  ELSE LET url == CoerceUrl(st, urlArg)
       IN IF ~Test(SAFE_URL_PATTERN_, url, FALSE)
          THEN tryFromDataUrl(st, Str(url))
          ELSE createSafeUrlSecurityPrivateDoNotAccessOrElse(st, url, "trySanitize")
RevalidatingTrySanitize(st, urlArg) ==
  IF urlArg = Null THEN Throw(st, "TypeError", FALSE)
  ELSE LET url == CoerceUrl(st, urlArg)
       IN IF ~Test(SAFE_URL_PATTERN_, url, TRUE)
          THEN tryFromDataUrl(st, Str(url))
          ELSE createSafeUrlSecurityPrivateDoNotAccessOrElse(st, url, "trySanitize")
NoDataUrlTrySanitize(st, urlArg) ==
  IF InstanceOfSafeUrl(urlArg) THEN NoThrow(st, urlArg, FALSE)
  ELSE IF urlArg = Null THEN Throw(st, "TypeError", FALSE)
  ELSE LET url == CoerceUrl(st, urlArg)
       IN IF ~Test(SAFE_URL_PATTERN_, url, TRUE)
          THEN NoThrow(st, Null, FALSE)
          ELSE createSafeUrlSecurityPrivateDoNotAccessOrElse(st, url, "trySanitize")
GlobalFlagTrySanitize(st, urlArg) ==
  IF InstanceOfSafeUrl(urlArg) THEN NoThrow(st, urlArg, FALSE)
  ELSE IF urlArg = Null THEN Throw(st, "TypeError", FALSE)
  ELSE LET url == CoerceUrl(st, urlArg)
       IN IF \/ st.made[Len(st.made)] = "trySanitize"
             \/ ~Test(SAFE_URL_PATTERN_, url, TRUE)
          THEN tryFromDataUrl(st, Str(url))
          ELSE createSafeUrlSecurityPrivateDoNotAccessOrElse(st, url, "trySanitize")
trySanitize(st, urlArg) ==
  IF InstanceOfSafeUrl(urlArg) THEN NoThrow(st, urlArg, FALSE)
  ELSE IF urlArg = Null THEN Throw(st, "TypeError", FALSE)
  ELSE LET url == CoerceUrl(st, urlArg)
       IN IF ~Test(SAFE_URL_PATTERN_, url, TRUE)
          THEN tryFromDataUrl(st, Str(url))
          ELSE createSafeUrlSecurityPrivateDoNotAccessOrElse(st, url, "trySanitize")

\* goog.html.SafeUrl.sanitize(url)
sanitize(st, url) == OrElse(trySanitize(st, url), INNOCUOUS_URL)

\* goog.html.SafeUrl.sanitizeAssertUnchanged(url, opt_allowDataUrl)
\* (AlteringSanitizeAssertUnchanged: returns what fromDataUrl accepted
\* without comparing it with url)
AlteringSanitizeAssertUnchanged(st, urlArg, opt_allowDataUrl) ==
  IF InstanceOfSafeUrl(urlArg) THEN NoThrow(st, urlArg, FALSE)
  ELSE IF urlArg = Null THEN Throw(st, "TypeError", FALSE)
  ELSE
    LET url == CoerceUrl(st, urlArg)
        tryData == opt_allowDataUrl /\ Test(Lit(<<100, 97, 116, 97, 58>> (* "data:" *)), url, TRUE)
        safeUrl == fromDataUrl(st, Str(url))
        st1 == IF tryData THEN safeUrl ELSE st
        ok == assert(st1, Test(SAFE_URL_PATTERN_, url, TRUE))
        made1 == createSafeUrlSecurityPrivateDoNotAccessOrElse(
                   st1, IF ok.ret THEN url ELSE INNOCUOUS_STRING,
                   "sanitizeAssertUnchanged")
    IN IF tryData /\ safeUrl.ret # INNOCUOUS_URL
       THEN safeUrl
       ELSE [made1 EXCEPT !.asserted = ok.asserted]
sanitizeAssertUnchanged(st, urlArg, opt_allowDataUrl) ==
  IF InstanceOfSafeUrl(urlArg) THEN NoThrow(st, urlArg, FALSE)
  ELSE IF urlArg = Null THEN Throw(st, "TypeError", FALSE)
  ELSE
    LET url == CoerceUrl(st, urlArg)
        tryData == opt_allowDataUrl /\ Test(Lit(<<100, 97, 116, 97, 58>> (* "data:" *)), url, TRUE)
        safeUrl == fromDataUrl(st, Str(url))
        st1 == IF tryData THEN safeUrl ELSE st
        ok == assert(st1, Test(SAFE_URL_PATTERN_, url, TRUE))
        made1 == createSafeUrlSecurityPrivateDoNotAccessOrElse(
                   st1, IF ok.ret THEN url ELSE INNOCUOUS_STRING,
                   "sanitizeAssertUnchanged")
    IN IF tryData /\ getTypedStringValue(safeUrl, safeUrl.ret) = url
       THEN safeUrl
       ELSE [made1 EXCEPT !.asserted = ok.asserted]

(***************************************************************************)
(* The public calls as steps.  A step is one whole call: it replaces the   *)
(* heap by the heap the call leaves and records the call and its outcome.  *)
(***************************************************************************)

\* How many SafeUrl instances callers may have constructed before the
\* builders stop being called.
MaxObjs == 1

NoOpt == [token |-> "", single |-> TRUE, ids |-> <<>>, allow |-> FALSE]
TokenOpt(token) == [NoOpt EXCEPT !.token = token]
IdsOpt(extensionId) ==
  [NoOpt EXCEPT !.single = extensionId.single, !.ids = extensionId.ids]
AllowOpt(allow) == [NoOpt EXCEPT !.allow = allow]

HasRoom == Len(heap) < Len(Published.heap) + MaxObjs

Do(op, arg, opt, out) ==
  /\ heap' = out.heap
  /\ made' = out.made
  /\ reg' = out.reg
  /\ ret' = out.ret
  /\ thrown' = out.thrown
  /\ asserted' = out.asserted
  /\ call' = [op |-> op, arg |-> arg, opt |-> opt]
  /\ UNCHANGED <<debug, sets>>

Init ==
  /\ heap = Published.heap
  /\ made = Published.made
  /\ reg = Published.reg
  /\ call = [op |-> "init", arg |-> Undefined, opt |-> NoOpt]
  /\ ret = Undefined
  /\ thrown = "none"
  /\ asserted = FALSE
  /\ debug \in BOOLEAN
  /\ sets = <<>>

\* new goog.html.SafeUrl(value, token) from outside the file
Construct(values, tokens) ==
  \E value \in values, token \in tokens :
    /\ HasRoom
    /\ Do("new", Str(value), TokenOpt(token), New(St, value, token, "new"))

Unwrap(args) ==
  \E safeUrl \in args : Do("unwrap", safeUrl, NoOpt, unwrap(St, debug, safeUrl))

FromConstant(strs) ==
  \E s \in strs :
    HasRoom /\ Do("fromConstant", Const(s), NoOpt, fromConstant(St, Const(s)))

FromTrustedResourceUrl(strs) ==
  \E s \in strs :
    /\ HasRoom
    /\ Do("fromTrustedResourceUrl", TrustedResourceUrl(s), NoOpt,
          fromTrustedResourceUrl(St, TrustedResourceUrl(s)))

TryFromDataUrl(strs) ==
  \E s \in strs :
    HasRoom /\ Do("tryFromDataUrl", Str(s), NoOpt, tryFromDataUrl(St, Str(s)))

FromDataUrl(strs) ==
  \E s \in strs :
    HasRoom /\ Do("fromDataUrl", Str(s), NoOpt, fromDataUrl(St, Str(s)))

FromTelUrl(strs) ==
  \E s \in strs : HasRoom /\ Do("fromTelUrl", Str(s), NoOpt, fromTelUrl(St, s))

FromSipUrl(strs) ==
  \E s \in strs : HasRoom /\ Do("fromSipUrl", Str(s), NoOpt, fromSipUrl(St, s))

FromFacebookMessengerUrl(strs) ==
  \E s \in strs :
    /\ HasRoom
    /\ Do("fromFacebookMessengerUrl", Str(s), NoOpt,
          fromFacebookMessengerUrl(St, s))

FromWhatsAppUrl(strs) ==
  \E s \in strs :
    HasRoom /\ Do("fromWhatsAppUrl", Str(s), NoOpt, fromWhatsAppUrl(St, s))

FromSmsUrl(strs) ==
  \E s \in strs : HasRoom /\ Do("fromSmsUrl", Str(s), NoOpt, fromSmsUrl(St, s))

FromSshUrl(strs) ==
  \E s \in strs : HasRoom /\ Do("fromSshUrl", Str(s), NoOpt, fromSshUrl(St, s))

SanitizeChromeExtensionUrl(strs, idArgs) ==
  \E s \in strs, extensionId \in idArgs :
    /\ HasRoom
    /\ Do("sanitizeChromeExtensionUrl", Str(s), IdsOpt(extensionId),
          sanitizeChromeExtensionUrl(St, s, extensionId))

SanitizeFirefoxExtensionUrl(strs, idArgs) ==
  \E s \in strs, extensionId \in idArgs :
    /\ HasRoom
    /\ Do("sanitizeFirefoxExtensionUrl", Str(s), IdsOpt(extensionId),
          sanitizeFirefoxExtensionUrl(St, s, extensionId))

SanitizeEdgeExtensionUrl(strs, idArgs) ==
  \E s \in strs, extensionId \in idArgs :
    /\ HasRoom
    /\ Do("sanitizeEdgeExtensionUrl", Str(s), IdsOpt(extensionId),
          sanitizeEdgeExtensionUrl(St, s, extensionId))

\* The sanitizers take any value; one that is a SafeUrl instance is handed
\* back, which constructs nothing.
TrySanitize(args) ==
  \E url \in args :
    /\ HasRoom \/ InstanceOfSafeUrl(url)
    /\ Do("trySanitize", url, NoOpt, trySanitize(St, url))

Sanitize(args) ==
  \E url \in args :
    /\ HasRoom \/ InstanceOfSafeUrl(url)
    /\ Do("sanitize", url, NoOpt, sanitize(St, url))

SanitizeAssertUnchanged(args) ==
  \E url \in args, allow \in BOOLEAN :
    /\ HasRoom \/ InstanceOfSafeUrl(url)
    /\ Do("sanitizeAssertUnchanged", url, AllowOpt(allow),
          sanitizeAssertUnchanged(St, url, allow))

FromBlob(types) ==
  \E type \in types :
    HasRoom /\ Do("fromBlob", Blob(type), NoOpt, fromBlob(St, Blob(type)))

FromMediaSource(args) ==
  \E mediaSource \in args :
    /\ HasRoom
    /\ Do("fromMediaSource", mediaSource, NoOpt,
          fromMediaSource(St, mediaSource))

\* How many calls the registry may have received before revokeObjectUrl
\* stops being called.
MaxRegistryCalls == 2

RevokeObjectUrl(args) ==
  \E safeUrl \in args :
    /\ Len(reg) < MaxRegistryCalls
    /\ Do("revokeObjectUrl", safeUrl, NoOpt, revokeObjectUrl(St, safeUrl))

(***************************************************************************)
(* The program: any sequence of public calls, on the URLs below.           *)
(***************************************************************************)
HttpUrl == <<104, 116, 116, 112, 58, 47, 47, 97, 47, 98>> (* "http://a/b" *)
JavascriptUrl == <<106, 97, 118, 97, 115, 99, 114, 105, 112, 116, 58, 97, 108, 101, 114, 116, 40, 49, 41>> (* "javascript:alert(1)" *)
TelUrl == <<116, 101, 108, 58, 53, 53, 53, 49, 50, 51, 52>> (* "tel:5551234" *)
SipUrl == <<115, 105, 112, 58, 97, 64, 98, 46, 99, 111>> (* "sip:a@b.co" *)
SipUrlBadEscape == <<115, 105, 112, 58, 37>> (* "sip:%" *)
SmsUrl == <<115, 109, 115, 58, 49, 50, 51, 63, 98, 111, 100, 121, 61, 104, 101, 108, 108, 111>> (* "sms:123?body=hello" *)
SmsUrlUpperBody == <<115, 109, 115, 58, 49, 63, 66, 79, 68, 89, 61, 97>> (* "sms:1?BODY=a" *)
SmsUrlTwoBodies == <<115, 109, 115, 58, 49, 50, 51, 63, 98, 111, 100, 121, 61, 97, 38, 98, 111, 100, 121, 61, 98>> (* "sms:123?body=a&body=b" *)
SshUrl == <<115, 115, 104, 58, 47, 47, 104, 111, 115, 116>> (* "ssh://host" *)
MessengerUrl == <<102, 98, 45, 109, 101, 115, 115, 101, 110, 103, 101, 114, 58, 47, 47, 115, 104, 97, 114, 101, 63, 120>> (* "fb-messenger://share?x" *)
WhatsAppUrl == <<119, 104, 97, 116, 115, 97, 112, 112, 58, 47, 47, 115, 101, 110, 100, 63, 120>> (* "whatsapp://send?x" *)
ChromeUrl == <<99, 104, 114, 111, 109, 101, 45, 101, 120, 116, 101, 110, 115, 105, 111, 110, 58, 47, 47, 97, 98, 99, 47, 112, 97, 103, 101, 46, 104, 116, 109, 108>> (* "chrome-extension://abc/page.html" *)
FirefoxUrl == <<109, 111, 122, 45, 101, 120, 116, 101, 110, 115, 105, 111, 110, 58, 47, 47, 97, 98, 99, 47, 112, 97, 103, 101, 46, 104, 116, 109, 108>> (* "moz-extension://abc/page.html" *)
EdgeUrl == <<109, 115, 45, 98, 114, 111, 119, 115, 101, 114, 45, 101, 120, 116, 101, 110, 115, 105, 111, 110, 58, 47, 47, 97, 98, 99, 47, 112, 97, 103, 101, 46, 104, 116, 109, 108>> (* "ms-browser-extension://abc/page.html" *)
PngType == <<105, 109, 97, 103, 101, 47, 112, 110, 103>> (* "image/png" *)
HtmlType == <<116, 101, 120, 116, 47, 104, 116, 109, 108>> (* "text/html" *)
PngDataUrl == <<100, 97, 116, 97, 58, 105, 109, 97, 103, 101, 47, 112, 110, 103, 59, 98, 97, 115, 101, 54, 52, 44, 65, 65, 65, 65>> (* "data:image/png;base64,AAAA" *)
HtmlDataUrl == <<100, 97, 116, 97, 58, 116, 101, 120, 116, 47, 104, 116, 109, 108, 59, 98, 97, 115, 101, 54, 52, 44, 65, 65, 65, 65>> (* "data:text/html;base64,AAAA" *)
CrLfDataUrl == <<100, 97, 116, 97, 58, 105, 109, 97, 103, 101, 47, 112, 110, 103, 59, 98, 97, 115, 101, 54, 52, 44, 65, 65, 37, 48, 65, 65, 65>> (* "data:image/png;base64,AA%0AAA" *)
BadDataUrl == <<100, 97, 116, 97, 58, 105, 109, 97, 103, 101, 47, 112, 110, 103, 59, 98, 97, 115, 101, 54, 52, 44, 65, 42>> (* "data:image/png;base64,A*" *)

Refs == {Ref(i) : i \in 1..Len(heap)}
\* values that are not SafeUrl instances of this file's making
Impostors ==
  {SubclassInstance(JavascriptUrl), Forged(JavascriptUrl), Str(JavascriptUrl)}
ExtensionIds ==
  {OneExtensionId(<<97, 98, 99>> (* "abc" *)), ExtensionIdArray(<<>>),
   ExtensionIdArray(<<<<120, 121, 122>> (* "xyz" *), <<97, 98, 99>> (* "abc" *)>>)}
GenericArgs ==
  Refs \cup Impostors \cup
  {Str(HttpUrl), Str(TelUrl), Str(HtmlDataUrl), Str(CrLfDataUrl),
   Const(JavascriptUrl), Null}

Next ==
  \/ Construct({JavascriptUrl}, OtherTokens)
  \/ Unwrap(Refs \cup Impostors)
  \/ FromConstant({JavascriptUrl})
  \/ FromTrustedResourceUrl({HttpUrl})
  \/ FromBlob({PngType, HtmlType})
  \/ FromMediaSource({MediaSource, Blob(PngType)})
  \/ TryFromDataUrl({PngDataUrl, CrLfDataUrl, BadDataUrl})
  \/ FromDataUrl({HtmlDataUrl, CrLfDataUrl, BadDataUrl})
  \/ FromTelUrl({TelUrl, JavascriptUrl})
  \/ FromSipUrl({SipUrl, SipUrlBadEscape, JavascriptUrl})
  \/ FromFacebookMessengerUrl({MessengerUrl, JavascriptUrl})
  \/ FromWhatsAppUrl({WhatsAppUrl, JavascriptUrl})
  \/ FromSmsUrl({SmsUrl, SmsUrlUpperBody, SmsUrlTwoBodies})
  \/ FromSshUrl({SshUrl, JavascriptUrl})
  \/ SanitizeChromeExtensionUrl({ChromeUrl, FirefoxUrl}, ExtensionIds)
  \/ SanitizeFirefoxExtensionUrl({FirefoxUrl, EdgeUrl}, ExtensionIds)
  \/ SanitizeEdgeExtensionUrl({EdgeUrl, ChromeUrl}, ExtensionIds)
  \/ TrySanitize(GenericArgs)
  \/ Sanitize(GenericArgs)
  \/ SanitizeAssertUnchanged(GenericArgs)

Spec == Init /\ [][Next]_vars

(***************************************************************************)
(* One call on a fresh page, with the argument drawn from every string     *)
(* that a few tokens spell: the builders as functions of their input.      *)
(***************************************************************************)
RECURSIVE Strings(_, _)
\* every concatenation of at most n of the tokens
Strings(tokens, n) ==
  IF n = 0 THEN {<<>>}
  ELSE LET shorter == Strings(tokens, n - 1)
       IN shorter \cup {p \o tok : p \in shorter, tok \in tokens}

FirstCall == call.op = "init"

\* the payload of the SafeUrl that a call returned
Payload(out) == WrappedValue(out, out.ret)
\* what goog.html.SafeUrl.unwrap makes of the last call's result
Unwrapped == unwrap(St, debug, ret).ret

MaxGenericTokens == 2
GenericTokens ==
  {<<104, 116, 116, 112, 58>> (* "http:" *), <<72, 116, 116, 112, 83, 58>> (* "HttpS:" *), <<109, 97, 105, 108, 116, 111, 58>> (* "mailto:" *), <<70, 84, 80, 58>> (* "FTP:" *), <<106, 97, 118, 97, 115, 99, 114, 105, 112, 116, 58>> (* "javascript:" *), <<58>> (* ":" *), <<47>> (* "/" *),
   <<63>> (* "?" *), <<35>> (* "#" *), <<97>> (* "a" *), <<100, 97, 116, 97, 58, 105, 109, 97, 103, 101, 47, 112, 110, 103, 59, 98, 97, 115, 101, 54, 52, 44>> (* "data:image/png;base64," *), <<68, 65, 84, 65, 58, 116, 101, 120, 116, 47, 104, 116, 109, 108, 59, 98, 97, 115, 101, 54, 52, 44>> (* "DATA:text/html;base64," *),
   <<65, 65, 43, 47>> (* "AA+/" *), <<65, 37, 48, 65, 65>> (* "A%0AA" *), <<61>> (* "=" *)}
GenericStrings ==
  {Str(s) : s \in Strings(GenericTokens, MaxGenericTokens)}

GenericTrySanitize == FirstCall /\ TrySanitize(GenericStrings)
GenericSanitize == FirstCall /\ Sanitize(GenericStrings)
GenericTryFromDataUrl ==
  FirstCall /\ TryFromDataUrl(Strings(GenericTokens, MaxGenericTokens))

NextGeneric == GenericTrySanitize \/ GenericSanitize \/ GenericTryFromDataUrl

SpecGeneric == Init /\ [][NextGeneric]_vars

(***************************************************************************)
(* The generic sanitizer: what it keeps and what it replaces               *)
(***************************************************************************)

\* x begins with prefix, letter case aside
BeginsNoCase(x, prefix) ==
  /\ Len(x) >= Len(prefix)
  /\ \A i \in 1..Len(prefix) : Fold(x[i]) = Fold(prefix[i])

\* no ':' stands before the first '/', '?' or '#' of x
NoEarlyColon(x) ==
  \A i \in 1..Len(x) :
    x[i] = 58 => \E j \in 1..(i - 1) : x[j] \in {47, 63, 35}

AllowedSchemeOrRelative(x) ==
  \/ \E scheme \in {<<104, 116, 116, 112, 58>> (* "http:" *), <<104, 116, 116, 112, 115, 58>> (* "https:" *), <<109, 97, 105, 108, 116, 111, 58>> (* "mailto:" *), <<102, 116, 112, 58>> (* "ftp:" *)} :
       BeginsNoCase(x, scheme)
  \/ NoEarlyColon(x)

\* C1: sanitize keeps, character for character, every string that begins
\* with http:, https:, mailto: or ftp: in any letter case, and every string
\* with no ':' before its first '/', '?' or '#': unwrap(sanitize(x)) = x.
C1_SanitizeKeepsSafeUrls ==
  (call.op = "sanitize" /\ call.arg.k = "str"
     /\ AllowedSchemeOrRelative(call.arg.s))
  => (thrown = "none" /\ Unwrapped = call.arg)

C1_Witness ==
  /\ call.op = "sanitize"
  /\ call.arg = Str(<<72, 116, 116, 112, 83, 58, 106, 97, 118, 97, 115, 99, 114, 105, 112, 116, 58>> (* "HttpS:javascript:" *))
  /\ Unwrapped = call.arg

\* The MIME type that a base64 data: URL declares: group 1 of
\* DATA_URL_PATTERN_, the longest run that ';base64,' and a body follow.
DeclaredMimeType(s) ==
  LET body == Cat(<<Lit(<<59, 98, 97, 115, 101, 54, 52, 44>> (* ";base64," *)),
                    Plus(Cls(LowerAZ \cup Digits \cup {43, 47})),
                    Star(Lit(<<61>> (* "=" *))), Eos>>)
      ends == {j \in Ends(Cat(<<Lit(<<100, 97, 116, 97, 58>> (* "data:" *)), DataUrlMime>>), s, 1, TRUE) :
                 Ends(body, s, j, TRUE) # {}}
  IN Sub(s, 6, SetMax(ends) - 1)

\* a base64 data: URL whose declared MIME type is on the allow-list
AllowListedDataUrl(x) ==
  LET filtered == RemoveCrLfEscapes(x)
  IN /\ Test(DATA_URL_PATTERN_, filtered, TRUE)
     /\ isSafeMimeType(DeclaredMimeType(filtered))

\* C2: a string that neither matches the generic safe-URL grammar nor is a
\* base64 data: URL of an allow-listed MIME type is refused: tryFromDataUrl
\* returns null and sanitize unwraps to INNOCUOUS_STRING.
C2_DataUrlsGatedByMimeType ==
  (call.arg.k = "str" /\ ~Test(SAFE_URL_PATTERN_, call.arg.s, TRUE)
     /\ ~AllowListedDataUrl(call.arg.s))
  => /\ call.op = "tryFromDataUrl" => ret = Null
     /\ call.op = "sanitize" => Unwrapped = Str(INNOCUOUS_STRING)

\* C8: for a string that the generic grammar rejects, trySanitize is null
\* exactly when tryFromDataUrl is, and else wraps the same payload; sanitize
\* is the shared INNOCUOUS_URL exactly when trySanitize is null, and else
\* wraps what trySanitize wraps.
C8_FallbackChain ==
  (call.arg.k = "str" /\ ~Test(SAFE_URL_PATTERN_, call.arg.s, TRUE))
  => /\ call.op = "trySanitize" =>
          LET d == tryFromDataUrl(St, call.arg)
          IN /\ thrown = "none"
             /\ ret = Null <=> d.ret = Null
             /\ d.ret # Null =>
                  ret.k = "ref" /\ WrappedValue(St, ret) = Payload(d)
     /\ call.op = "sanitize" =>
          LET t == trySanitize(St, call.arg)
          IN /\ thrown = "none"
             /\ ret = INNOCUOUS_URL <=> t.ret = Null
             /\ t.ret # Null =>
                  ret.k = "ref" /\ WrappedValue(St, ret) = Payload(t)

C8_Witness ==
  /\ call.op = "trySanitize"
  /\ call.arg = Str(<<100, 97, 116, 97, 58, 105, 109, 97, 103, 101, 47, 112, 110, 103, 59, 98, 97, 115, 101, 54, 52, 44, 65, 37, 48, 65, 65>> (* "data:image/png;base64,A%0AA" *))
  /\ ret = Ref(3)
  /\ heap[3].value = <<100, 97, 116, 97, 58, 105, 109, 97, 103, 101, 47, 112, 110, 103, 59, 98, 97, 115, 101, 54, 52, 44, 65, 65>> (* "data:image/png;base64,AA" *)

(***************************************************************************)
(* The type check of unwrap and the construction token                     *)
(***************************************************************************)

\* C3 as stated: unwrap returns the payload of an argument that is exactly a
\* SafeUrl, and for every other argument reports an assertion failure and
\* returns 'type_error:SafeUrl'.
C3_UnwrapReturnsMarker ==
  call.op = "unwrap" =>
    IF call.arg.k = "ref"
    THEN ret = Str(heap[call.arg.id].value) /\ ~asserted
    ELSE asserted /\ ret = Str(TYPE_ERROR_STRING)

\* C3 (amended): unwrap returns the payload of an argument that is exactly a
\* SafeUrl; for every other argument it reports an assertion failure and
\* then, in a build with assertions enabled, throws AssertionError and
\* returns nothing, and otherwise returns 'type_error:SafeUrl'; it never
\* returns the string that the argument carries.
C3_UnwrapChecksExactType ==
  call.op = "unwrap" =>
    IF call.arg.k = "ref"
    THEN ret = Str(heap[call.arg.id].value) /\ ~asserted /\ thrown = "none"
    ELSE /\ asserted
         /\ ret # Str(call.arg.s)
         /\ IF debug THEN thrown = "AssertionError" /\ ret = Undefined
            ELSE thrown = "none" /\ ret = Str(TYPE_ERROR_STRING)

C3_Witness ==
  /\ call.op = "unwrap"
  /\ call.arg = SubclassInstance(JavascriptUrl)
  /\ ret = Str(TYPE_ERROR_STRING)

\* C4: new SafeUrl(value, token) with a token other than the private one
\* wraps the empty string whatever value was asked for; the factory, which
\* passes the private token, wraps the string it is given.
C4_ConstructorNeedsToken ==
  /\ call.op = "new" =>
       /\ call.opt.token # CONSTRUCTOR_TOKEN_PRIVATE_
       /\ ret.k = "ref" /\ heap[ret.id].value = <<>>
  /\ call.op \in {"fromConstant", "fromTrustedResourceUrl"} =>
       ret.k = "ref" /\ heap[ret.id].value = call.arg.s

C4_Witness ==
  /\ call.op = "new"
  /\ call.arg = Str(JavascriptUrl)
  /\ call.opt.token = "{}"
  /\ heap[ret.id].value = <<>>

(***************************************************************************)
(* Provenance                                                              *)
(***************************************************************************)
ExtensionSchemes ==
  {<<99, 104, 114, 111, 109, 101, 45, 101, 120, 116, 101, 110, 115, 105, 111, 110, 58, 47, 47>> (* "chrome-extension://" *), <<109, 111, 122, 45, 101, 120, 116, 101, 110, 115, 105, 111, 110, 58, 47, 47>> (* "moz-extension://" *), <<109, 115, 45, 98, 114, 111, 119, 115, 101, 114, 45, 101, 120, 116, 101, 110, 115, 105, 111, 110, 58, 47, 47>> (* "ms-browser-extension://" *)}

\* v passes the validator that the builder `by` applies
Accepts(by, v) ==
  CASE by = "fromTelUrl" -> caseInsensitiveStartsWith(v, <<116, 101, 108, 58>> (* "tel:" *))
    [] by = "fromSipUrl" ->
         /\ decodeURIComponent(v).ok
         /\ Test(SIP_URL_PATTERN_, decodeURIComponent(v).s, TRUE)
    [] by = "fromSshUrl" -> caseInsensitiveStartsWith(v, <<115, 115, 104, 58, 47, 47>> (* "ssh://" *))
    [] by = "fromSmsUrl" ->
         /\ caseInsensitiveStartsWith(v, <<115, 109, 115, 58>> (* "sms:" *))
         /\ isSmsUrlBodyValid_(v) = [thrown |-> "none", ret |-> TRUE]
    [] by = "fromFacebookMessengerUrl" ->
         caseInsensitiveStartsWith(v, <<102, 98, 45, 109, 101, 115, 115, 101, 110, 103, 101, 114, 58, 47, 47, 115, 104, 97, 114, 101>> (* "fb-messenger://share" *))
    [] by = "fromWhatsAppUrl" -> caseInsensitiveStartsWith(v, <<119, 104, 97, 116, 115, 97, 112, 112, 58, 47, 47, 115, 101, 110, 100>> (* "whatsapp://send" *))
    [] by = "sanitizeChromeExtensionUrl" ->
         ExtensionIdOf(<<99, 104, 114, 111, 109, 101, 45, 101, 120, 116, 101, 110, 115, 105, 111, 110, 58, 47, 47>> (* "chrome-extension://" *), v) # Null
    [] by = "sanitizeFirefoxExtensionUrl" ->
         ExtensionIdOf(<<109, 111, 122, 45, 101, 120, 116, 101, 110, 115, 105, 111, 110, 58, 47, 47>> (* "moz-extension://" *), v) # Null
    [] by = "sanitizeEdgeExtensionUrl" ->
         ExtensionIdOf(<<109, 115, 45, 98, 114, 111, 119, 115, 101, 114, 45, 101, 120, 116, 101, 110, 115, 105, 111, 110, 58, 47, 47>> (* "ms-browser-extension://" *), v) # Null
    [] by = "tryFromDataUrl" -> Test(DATA_URL_PATTERN_, v, TRUE)
    [] by \in {"trySanitize", "sanitizeAssertUnchanged"} ->
         Test(SAFE_URL_PATTERN_, v, TRUE)
    [] OTHER -> FALSE

Validating ==
  {"fromTelUrl", "fromSipUrl", "fromSshUrl", "fromSmsUrl",
   "fromFacebookMessengerUrl", "fromWhatsAppUrl",
   "sanitizeChromeExtensionUrl", "sanitizeFirefoxExtensionUrl",
   "sanitizeEdgeExtensionUrl", "tryFromDataUrl", "trySanitize",
   "sanitizeAssertUnchanged"}

\* C5 as stated, in its weakest reading: every SafeUrl in existence wraps
\* INNOCUOUS_STRING or a string that some validator of the file accepts.
C5_EveryPayloadValidated ==
  \A i \in 1..Len(heap) :
    \/ heap[i].value = INNOCUOUS_STRING
    \/ \E by \in Validating : Accepts(by, heap[i].value)

\* C5 (amended): every SafeUrl in existence wraps INNOCUOUS_STRING, or the
\* empty string (made by the constructor without the token), or
\* 'about:blank' (the published ABOUT_BLANK), or whatever string a
\* compile-time constant or a TrustedResourceUrl held (fromConstant and
\* fromTrustedResourceUrl validate nothing), or a URL that the object-URL
\* registry minted (fromBlob and fromMediaSource), or a string that passed
\* the validator of the builder that made it.
C5_Provenance ==
  \A i \in 1..Len(heap) :
    CASE made[i] = "INNOCUOUS_URL" -> heap[i].value = INNOCUOUS_STRING
      [] made[i] = "ABOUT_BLANK" -> heap[i].value = <<97, 98, 111, 117, 116, 58, 98, 108, 97, 110, 107>> (* "about:blank" *)
      [] made[i] = "new" -> heap[i].value = <<>>
      [] made[i] \in {"fromConstant", "fromTrustedResourceUrl"} -> TRUE
      [] made[i] \in {"fromBlob", "fromMediaSource"} ->
           \/ heap[i].value = INNOCUOUS_STRING
           \/ \E j \in 1..Len(reg) :
                reg[j] = [op |-> "create", url |-> heap[i].value]
      [] OTHER ->
           /\ made[i] \in Validating
           /\ \/ heap[i].value = INNOCUOUS_STRING
              \/ Accepts(made[i], heap[i].value)

C5_Witness ==
  /\ Len(heap) = 3
  /\ made[3] = "tryFromDataUrl"
  /\ call.arg = Str(CrLfDataUrl)
  /\ heap[3].value = <<100, 97, 116, 97, 58, 105, 109, 97, 103, 101, 47, 112, 110, 103, 59, 98, 97, 115, 101, 54, 52, 44, 65, 65, 65, 65>> (* "data:image/png;base64,AAAA" *)

(***************************************************************************)
(* Totality of the validators                                              *)
(***************************************************************************)
Validators ==
  {"fromTelUrl", "fromSipUrl", "fromSshUrl", "fromSmsUrl",
   "fromFacebookMessengerUrl", "fromWhatsAppUrl",
   "sanitizeChromeExtensionUrl", "sanitizeFirefoxExtensionUrl",
   "sanitizeEdgeExtensionUrl", "fromDataUrl", "sanitize"}

\* C6: every validator, on every string, returns without an exception a
\* SafeUrl that wraps its input or INNOCUOUS_STRING.
C6_ValidatorsAreTotal ==
  (call.op \in Validators /\ call.arg.k = "str")
  => /\ thrown = "none"
     /\ ret.k = "ref"
     /\ heap[ret.id].value \in {call.arg.s, INNOCUOUS_STRING}

(***************************************************************************)
(* The sanitizers hand a SafeUrl back                                      *)
(***************************************************************************)

\* C7: trySanitize, sanitize and sanitizeAssertUnchanged, given a SafeUrl,
\* return that very instance, construct nothing and leave every payload as
\* it was, without validating it again; so sanitize(sanitize(x)) is the
\* instance that sanitize(x) returned.
C7_SanitizersReturnSafeUrlsAsIs ==
  [][(/\ call'.op \in {"trySanitize", "sanitize", "sanitizeAssertUnchanged"}
      /\ call'.arg.k = "ref")
     => (/\ ret' = call'.arg
         /\ heap' = heap
         /\ thrown' = "none"
         /\ ~asserted')]_vars

C7_Witness ==
  /\ call.op = "sanitize"
  /\ call.arg = Ref(3)
  /\ ret = Ref(3)
  /\ heap[3].value = TelUrl
  /\ ~Test(SAFE_URL_PATTERN_, TelUrl, TRUE)

(***************************************************************************)
(* fromSmsUrl as a function of its argument                                *)
(***************************************************************************)
MaxSmsTokens == 2
SmsPrefixes == {<<115, 109, 115, 58, 49>> (* "sms:1" *), <<83, 109, 83, 58>> (* "SmS:" *), <<116, 101, 108, 58, 49>> (* "tel:1" *)}
SmsTokens ==
  {<<63, 98, 111, 100, 121, 61>> (* "?body=" *), <<38, 98, 111, 100, 121, 61>> (* "&body=" *), <<63, 66, 79, 68, 89, 61>> (* "?BODY=" *), <<38, 66, 111, 100, 121, 61>> (* "&Body=" *), <<97, 45, 95, 46, 126, 90, 57>> (* "a-_.~Z9" *), <<37, 52, 49>> (* "%41" *), <<37, 122, 122>> (* "%zz" *),
   <<37>> (* "%" *), <<37, 70, 70>> (* "%FF" *), <<33>> (* "!" *), <<38, 120, 61, 49>> (* "&x=1" *), <<35>> (* "#" *)}
SmsStrings ==
  {p \o s : p \in SmsPrefixes, s \in Strings(SmsTokens, MaxSmsTokens)}

SmsFromSmsUrl == FirstCall /\ FromSmsUrl(SmsStrings)
NextSms == SmsFromSmsUrl
SpecSms == Init /\ [][NextSms]_vars

\* x up to its first '#'
WithoutFragment(x) ==
  LET at == {i \in 1..Len(x) : x[i] = 35}
  IN IF at = {} THEN x ELSE Sub(x, 1, SetMin(at) - 1)

\* where a '?' or '&' is followed by body=, in any letter case
BodyParams(y) ==
  {i \in 1..Len(y) :
     y[i] \in {63, 38} /\ BeginsNoCase(Sub(y, i + 1, Len(y)), <<98, 111, 100, 121, 61>> (* "body=" *))}

\* the value of the parameter at i: what follows body= up to the next '&'
BodyValueAt(y, i) ==
  LET amps == {j \in (i + 6)..Len(y) : y[j] = 38}
  IN Sub(y, i + 6, IF amps = {} THEN Len(y) ELSE SetMin(amps) - 1)

\* [A-Za-z0-9-_.~]
Unreserved == Digits \cup UpperAZ \cup LowerAZ \cup {45, 95, 46, 126}

\* v is made of unreserved characters and %HH escapes only (the two digits
\* of an escape are themselves unreserved characters)
OnlyUnreservedAndEscapes(v) ==
  \A k \in 1..Len(v) : v[k] \in Unreserved \/ IsEscapeAt(v, k)

SmsUrlAcceptable(x) ==
  /\ BeginsNoCase(x, <<115, 109, 115, 58>> (* "sms:" *))
  /\ LET y == WithoutFragment(x)
         params == BodyParams(y)
     IN \/ params = {}
        \/ /\ Cardinality(params) = 1
           /\ LET v == BodyValueAt(y, SetMin(params))
              IN \/ v = <<>>
                 \/ decodeURIComponent(v).ok /\ OnlyUnreservedAndEscapes(v)

\* C9: fromSmsUrl(x) unwraps to x when x begins with sms: and, fragment
\* aside, has no body parameter or exactly one whose value is empty or is
\* percent-decodable and made of unreserved characters and %HH escapes; in
\* every other case it unwraps to INNOCUOUS_STRING.
C9_FromSmsUrl ==
  call.op = "fromSmsUrl" =>
    /\ thrown = "none"
    /\ Unwrapped = Str(IF SmsUrlAcceptable(call.arg.s) THEN call.arg.s
                       ELSE INNOCUOUS_STRING)

(***************************************************************************)
(* fromSipUrl as a function of its argument                                *)
(***************************************************************************)
MaxSipTokens == 2
SipPrefixes == {<<115, 105, 112, 58>> (* "sip:" *), <<83, 73, 80, 83, 58>> (* "SIPS:" *), <<116, 101, 108, 58>> (* "tel:" *)}
SipTokens ==
  {<<97>> (* "a" *), <<64>> (* "@" *), <<98, 46, 99>> (* "b.c" *), <<37>> (* "%" *), <<37, 52, 49>> (* "%41" *), <<37, 122, 122>> (* "%zz" *), <<37, 70, 70>> (* "%FF" *), <<37, 52, 48>> (* "%40" *), <<63, 120, 61, 49>> (* "?x=1" *), <<47>> (* "/" *),
   <<58>> (* ":" *), <<45, 95, 126, 33, 36, 38, 39, 40, 41, 42, 43, 44, 59, 61>> (* "-_~!$&'()*+,;=" *), <<64, 98, 46, 99, 111>> (* "@b.co" *), <<46, 120, 45, 49, 46, 79, 114, 103>> (* ".x-1.Org" *)}
SipStrings ==
  {p \o s : p \in SipPrefixes, s \in Strings(SipTokens, MaxSipTokens)}

SipFromSipUrl == FirstCall /\ FromSipUrl(SipStrings)
NextSip == SipFromSipUrl
SpecSip == Init /\ [][NextSip]_vars

(***************************************************************************)
(* The extension sanitizers as functions of their arguments                *)
(***************************************************************************)
MaxExtTokens == 2
ExtPrefixes ==
  {<<99, 104, 114, 111, 109, 101, 45, 101, 120, 116, 101, 110, 115, 105, 111, 110, 58, 47, 47>> (* "chrome-extension://" *), <<109, 111, 122, 45, 101, 120, 116, 101, 110, 115, 105, 111, 110, 58, 47, 47>> (* "moz-extension://" *), <<109, 115, 45, 98, 114, 111, 119, 115, 101, 114, 45, 101, 120, 116, 101, 110, 115, 105, 111, 110, 58, 47, 47>> (* "ms-browser-extension://" *),
   <<67, 104, 114, 111, 109, 101, 45, 69, 120, 116, 101, 110, 115, 105, 111, 110, 58, 47, 47>> (* "Chrome-Extension://" *), <<120, 45, 99, 104, 114, 111, 109, 101, 45, 101, 120, 116, 101, 110, 115, 105, 111, 110, 58, 47, 47>> (* "x-chrome-extension://" *), <<99, 104, 114, 111, 109, 101, 45, 101, 120, 116, 101, 110, 115, 105, 111, 110, 58, 47>> (* "chrome-extension:/" *)}
ExtTokens == {<<97, 98, 99>> (* "abc" *), <<97, 98, 99, 47>> (* "abc/" *), <<120, 121, 122, 47>> (* "xyz/" *), <<97, 98, 47>> (* "ab/" *), <<47>> (* "/" *), <<112, 97, 103, 101, 46, 104, 116, 109, 108>> (* "page.html" *)}
ExtStrings ==
  {p \o s : p \in ExtPrefixes, s \in Strings(ExtTokens, MaxExtTokens)}
ExtIdArgs ==
  {OneExtensionId(<<97, 98, 99>> (* "abc" *)), OneExtensionId(<<120, 121, 122>> (* "xyz" *)), ExtensionIdArray(<<>>),
   ExtensionIdArray(<<<<97, 98, 99>> (* "abc" *)>>), ExtensionIdArray(<<<<120, 121, 122>> (* "xyz" *), <<97, 98, 99>> (* "abc" *)>>)}

ExtChrome == FirstCall /\ SanitizeChromeExtensionUrl(ExtStrings, ExtIdArgs)
ExtFirefox == FirstCall /\ SanitizeFirefoxExtensionUrl(ExtStrings, ExtIdArgs)
ExtEdge == FirstCall /\ SanitizeEdgeExtensionUrl(ExtStrings, ExtIdArgs)
NextExt == ExtChrome \/ ExtFirefox \/ ExtEdge
SpecExt == Init /\ [][NextExt]_vars

SchemeOf(op) ==
  CASE op = "sanitizeChromeExtensionUrl" -> <<99, 104, 114, 111, 109, 101, 45, 101, 120, 116, 101, 110, 115, 105, 111, 110, 58, 47, 47>> (* "chrome-extension://" *)
    [] op = "sanitizeFirefoxExtensionUrl" -> <<109, 111, 122, 45, 101, 120, 116, 101, 110, 115, 105, 111, 110, 58, 47, 47>> (* "moz-extension://" *)
    [] op = "sanitizeEdgeExtensionUrl" -> <<109, 115, 45, 98, 114, 111, 119, 115, 101, 114, 45, 101, 120, 116, 101, 110, 115, 105, 111, 110, 58, 47, 47>> (* "ms-browser-extension://" *)

\* x is scheme, then an identifier of at least one character that is not
\* '/', then '/'; and the identifier is one of ids
HasAcceptedExtensionId(scheme, x, ids) ==
  /\ Len(x) >= Len(scheme)
  /\ \A i \in 1..Len(scheme) : x[i] = scheme[i]
  /\ \E n \in 1..(Len(x) - Len(scheme)) :
       /\ \A k \in 1..n : x[Len(scheme) + k] # 47
       /\ Len(scheme) + n + 1 <= Len(x) /\ x[Len(scheme) + n + 1] = 47
       /\ \E j \in 1..Len(ids) :
            ids[j] = Sub(x, Len(scheme) + 1, Len(scheme) + n)

\* C10: each extension sanitizer keeps url exactly when url is its scheme,
\* '://', a non-empty identifier without '/', '/', and the identifier equals
\* one of the caller's constants, and else wraps INNOCUOUS_STRING; one
\* constant c does what the array [c] does, and an empty array accepts
\* nothing.
C10_ExtensionSanitizers ==
  call.op \in {"sanitizeChromeExtensionUrl", "sanitizeFirefoxExtensionUrl",
               "sanitizeEdgeExtensionUrl"} =>
    LET x == call.arg.s
        scheme == SchemeOf(call.op)
    IN /\ thrown = "none"
       /\ Unwrapped =
            Str(IF HasAcceptedExtensionId(scheme, x, call.opt.ids) THEN x
                ELSE INNOCUOUS_STRING)
       /\ call.opt.single =>
            Unwrapped =
              Str(Payload(sanitizeExtensionUrl_(
                    St, scheme, x, ExtensionIdArray(call.opt.ids), call.op)))
       /\ call.opt.ids = <<>> => Unwrapped = Str(INNOCUOUS_STRING)

C10_Witness ==
  /\ call.op = "sanitizeFirefoxExtensionUrl"
  /\ call.arg = Str(<<109, 111, 122, 45, 101, 120, 116, 101, 110, 115, 105, 111, 110, 58, 47, 47, 97, 98, 99, 47, 112, 97, 103, 101, 46, 104, 116, 109, 108>> (* "moz-extension://abc/page.html" *))
  /\ call.opt.ids = <<<<120, 121, 122>> (* "xyz" *), <<97, 98, 99>> (* "abc" *)>>
  /\ Unwrapped = call.arg

(***************************************************************************)
(* tryFromDataUrl and fromDataUrl as functions of their argument           *)
(***************************************************************************)
MaxDataTokens == 2
DataHeads ==
  {<<100, 97, 116, 97, 58, 105, 109, 97, 103, 101, 47, 112, 110, 103, 59, 98, 97, 115, 101, 54, 52, 44>> (* "data:image/png;base64," *), <<68, 65, 84, 65, 58, 116, 101, 120, 116, 47, 104, 116, 109, 108, 59, 66, 65, 83, 69, 54, 52, 44, 65>> (* "DATA:text/html;BASE64,A" *), <<100, 97, 116, 97, 58, 59, 98, 97, 115, 101, 54, 52, 44>> (* "data:;base64," *),
   <<100, 97, 116, 97, 58, 37, 48, 37, 48, 65, 65, 59, 98, 97, 115, 101, 54, 52, 44>> (* "data:%0%0AA;base64," *), <<100, 97, 116, 97, 58, 97, 10, 98, 59, 98, 97, 115, 101, 54, 52, 44>> (* "data:a\nb;base64," *), <<100, 97, 116, 97, 58, 97, 59, 98, 97, 115, 101, 54, 52>> (* "data:a;base64" *), <<100, 97, 116, 58>> (* "dat:" *)}
DataTokens ==
  {<<65, 65, 43, 47>> (* "AA+/" *), <<122, 57>> (* "z9" *), <<61>> (* "=" *), <<37, 48, 65>> (* "%0A" *), <<37, 48, 68>> (* "%0D" *), <<37, 48, 97>> (* "%0a" *), <<37, 48>> (* "%0" *), <<65>> (* "A" *), <<42>> (* "*" *),
   <<59, 98, 97, 115, 101, 54, 52, 44>> (* ";base64," *)}
DataStrings ==
  {h \o t : h \in DataHeads, t \in Strings(DataTokens, MaxDataTokens)}

NextData ==
  \/ FirstCall /\ TryFromDataUrl(DataStrings)
  \/ FirstCall /\ FromDataUrl(DataStrings)
SpecData == Init /\ [][NextData]_vars

\* [A-Za-z0-9+/]
Base64Chars == Digits \cup UpperAZ \cup LowerAZ \cup {43, 47}

\* f is data:, any characters of one line, ;base64, (in any letter case),
\* one or more base64 characters, and then only '='
IsBase64DataUrl(f) ==
  /\ BeginsNoCase(f, <<100, 97, 116, 97, 58>> (* "data:" *))
  /\ \E k \in 6..Len(f) :
       /\ BeginsNoCase(Sub(f, k, Len(f)), <<59, 98, 97, 115, 101, 54, 52, 44>> (* ";base64," *))
       /\ \A i \in 6..(k - 1) : f[i] \notin LineTerminators
       /\ \E e \in (k + 8)..Len(f) :
            /\ \A i \in (k + 8)..e : f[i] \in Base64Chars
            /\ \A i \in (e + 1)..Len(f) : f[i] = 61

\* s holds %0A or %0D somewhere
HoldsCrLfEscape(s) ==
  \E i \in 1..(Len(s) - 2) : Sub(s, i, i + 2) \in {<<37, 48, 65>> (* "%0A" *), <<37, 48, 68>> (* "%0D" *)}

\* C11: tryFromDataUrl(x) is present exactly when x without its %0A and %0D
\* escapes is a base64 data URL; its payload is then that filtered string,
\* in which no %0A or %0D is left; fromDataUrl(x) wraps the same payload,
\* and INNOCUOUS_STRING when tryFromDataUrl(x) is absent.
C11_DataUrlFiltered ==
  LET filtered == RemoveCrLfEscapes(call.arg.s)
  IN /\ call.op = "tryFromDataUrl" =>
          /\ thrown = "none"
          /\ ret # Null <=> IsBase64DataUrl(filtered)
          /\ ret # Null =>
               /\ Unwrapped = Str(filtered)
               /\ ~HoldsCrLfEscape(Unwrapped.s)
     /\ call.op = "fromDataUrl" =>
          /\ thrown = "none"
          /\ Unwrapped =
               Str(Payload(OrElse(tryFromDataUrl(St, call.arg), INNOCUOUS_URL)))
          /\ tryFromDataUrl(St, call.arg).ret = Null =>
               Unwrapped = Str(INNOCUOUS_STRING)

(***************************************************************************)
(* sanitizeAssertUnchanged as a function of its arguments                  *)
(***************************************************************************)
NextAssert == FirstCall /\ SanitizeAssertUnchanged(GenericStrings)
SpecAssert == Init /\ [][NextAssert]_vars

\* x comes back from sanitizeAssertUnchanged(x, allow) as it is
KeptUnchanged(x, allow) ==
  \/ AllowedSchemeOrRelative(x)
  \/ /\ allow
     /\ BeginsNoCase(x, <<100, 97, 116, 97, 58>> (* "data:" *))
     /\ IsBase64DataUrl(RemoveCrLfEscapes(x))
     /\ RemoveCrLfEscapes(x) = x

\* C12: sanitizeAssertUnchanged(x, allowDataUrl) of a string x throws
\* nothing and returns a SafeUrl that wraps x or INNOCUOUS_STRING: x when x
\* matches the safe-URL pattern, or when allowDataUrl is set, x begins with
\* data: and the data-URL validator accepts x and leaves it as it is; in
\* every other case it reports an assertion failure and wraps
\* INNOCUOUS_STRING, never a filtered string.
C12_AssertUnchanged ==
  (call.op = "sanitizeAssertUnchanged" /\ call.arg.k = "str") =>
    /\ thrown = "none"
    /\ ret.k = "ref"
    /\ Unwrapped =
         Str(IF KeptUnchanged(call.arg.s, call.opt.allow) THEN call.arg.s
             ELSE INNOCUOUS_STRING)
    /\ asserted <=> ~KeptUnchanged(call.arg.s, call.opt.allow)

C12_Witness ==
  /\ call.op = "sanitizeAssertUnchanged"
  /\ call.arg = Str(<<100, 97, 116, 97, 58, 105, 109, 97, 103, 101, 47, 112, 110, 103, 59, 98, 97, 115, 101, 54, 52, 44, 65, 37, 48, 65, 65>> (* "data:image/png;base64,A%0AA" *))
  /\ call.opt.allow
  /\ debug
  /\ asserted
  /\ Unwrapped = Str(INNOCUOUS_STRING)

(***************************************************************************)
(* Object URLs: fromBlob, fromMediaSource and revokeObjectUrl among other  *)
(* calls                                                                   *)
(***************************************************************************)
BlobTypes ==
  {PngType, HtmlType, <<>>, <<73, 77, 65, 71, 69, 47, 80, 78, 71, 59, 97, 61, 98>> (* "IMAGE/PNG;a=b" *), <<118, 105, 100, 101, 111, 47, 109, 112, 52>> (* "video/mp4" *), <<105, 109, 97, 103, 101, 47, 115, 118, 103, 43, 120, 109, 108>> (* "image/svg+xml" *)}

NextBlob ==
  \/ FromBlob(BlobTypes)
  \/ FromMediaSource({MediaSource, Blob(PngType)})
  \/ RevokeObjectUrl(Refs)
  \/ FromTelUrl({TelUrl, JavascriptUrl})
  \/ Sanitize(Refs \cup {Str(HttpUrl), Str(JavascriptUrl)})
  \/ Unwrap(Refs)
SpecBlob == Init /\ [][NextBlob]_vars

\* C13: fromBlob(blob) calls the registry's create once and wraps the URL
\* it minted when isSafeMimeType(blob.type), and calls the registry not at
\* all and wraps INNOCUOUS_STRING when not.
C13_FromBlobGated ==
  [][call'.op = "fromBlob" =>
       /\ thrown' = "none"
       /\ ret' = Ref(Len(heap) + 1)
       /\ IF isSafeMimeType(call'.arg.s)
          THEN /\ Len(reg') = Len(reg) + 1
               /\ SubSeq(reg', 1, Len(reg)) = reg
               /\ reg'[Len(reg')] =
                    [op |-> "create", url |-> heap'[ret'.id].value]
          ELSE /\ reg' = reg
               /\ heap'[ret'.id].value = INNOCUOUS_STRING]_vars

C13_Witness ==
  /\ call.op = "fromBlob"
  /\ call.arg = Blob(<<73, 77, 65, 71, 69, 47, 80, 78, 71, 59, 97, 61, 98>> (* "IMAGE/PNG;a=b" *))
  /\ reg = <<[op |-> "create", url |-> <<98, 108, 111, 98, 58, 49>> (* "blob:1" *)]>>
  /\ Unwrapped = Str(<<98, 108, 111, 98, 58, 49>> (* "blob:1" *))

\* C14 as stated: the registry's revoke is only ever called with a URL that
\* an earlier create returned.
C14_RevokeAfterCreate ==
  \A i \in 1..Len(reg) :
    reg[i].op = "revoke" =>
      \E j \in 1..(i - 1) : reg[j] = [op |-> "create", url |-> reg[i].url]

\* C14 (amended): revokeObjectUrl(v) leaves every SafeUrl as it is and
\* passes the payload of v to the registry's revoke, once, whatever builder
\* made v, unless that payload is INNOCUOUS_STRING, and then it calls the
\* registry not at all; when fromBlob or fromMediaSource made v, the payload
\* it passes is a URL that an earlier create returned.
C14_RevokeForwardsPayload ==
  [][(call'.op = "revokeObjectUrl" /\ call'.arg.k = "ref") =>
       LET url == heap[call'.arg.id].value
       IN /\ thrown' = "none"
          /\ heap' = heap
          /\ IF url = INNOCUOUS_STRING THEN reg' = reg
             ELSE /\ reg' = Append(reg, [op |-> "revoke", url |-> url])
                  /\ made[call'.arg.id] \in {"fromBlob", "fromMediaSource"} =>
                       \E j \in 1..Len(reg) :
                         reg[j] = [op |-> "create", url |-> url]]_vars

C14_Witness ==
  /\ call.op = "revokeObjectUrl"
  /\ call.arg = Ref(3)
  /\ made[3] = "fromMediaSource"
  /\ reg = <<[op |-> "create", url |-> <<98, 108, 111, 98, 58, 49>> (* "blob:1" *)],
             [op |-> "revoke", url |-> <<98, 108, 111, 98, 58, 49>> (* "blob:1" *)]>>

(***************************************************************************)
(* A SafeUrl never changes                                                 *)
(***************************************************************************)

\* C15: no call changes a SafeUrl that exists: whatever the step, every
\* instance of before it, INNOCUOUS_URL and ABOUT_BLANK included, is still
\* there with the payload it had, and unwraps to it.
C15_PayloadsNeverChange ==
  [][\A i \in 1..Len(heap) :
       /\ i <= Len(heap')
       /\ heap'[i] = heap[i]
       /\ made'[i] = made[i]
       /\ unwrap([heap |-> heap', made |-> made', reg |-> reg'],
                 debug, Ref(i)).ret = Str(heap[i].value)]_vars

C15_Witness ==
  /\ call.op = "revokeObjectUrl"
  /\ call.arg = Ref(3)
  /\ made[3] = "fromBlob"
  /\ reg = <<[op |-> "create", url |-> <<98, 108, 111, 98, 58, 49>> (* "blob:1" *)],
             [op |-> "revoke", url |-> <<98, 108, 111, 98, 58, 49>> (* "blob:1" *)]>>
  /\ heap[3].value = <<98, 108, 111, 98, 58, 49>> (* "blob:1" *)
  /\ heap[1].value = INNOCUOUS_STRING
  /\ heap[2].value = <<97, 98, 111, 117, 116, 58, 98, 108, 97, 110, 107>> (* "about:blank" *)

(***************************************************************************)
(* The prefix validators as functions of their argument                    *)
(***************************************************************************)
MaxPrefixTokens == 2
PrefixHeads ==
  {<<116, 101, 108, 58>> (* "tel:" *), <<84, 69, 76, 58>> (* "TEL:" *), <<116, 101>> (* "te" *), <<32, 116, 101, 108, 58>> (* " tel:" *), <<115, 115, 104, 58, 47, 47>> (* "ssh://" *), <<83, 115, 104, 58, 47, 47>> (* "Ssh://" *), <<83, 83, 72, 58, 47>> (* "SSH:/" *),
   <<102, 98, 45, 109, 101, 115, 115, 101, 110, 103, 101, 114, 58, 47, 47, 115, 104, 97, 114, 101>> (* "fb-messenger://share" *), <<70, 66, 45, 77, 101, 115, 115, 101, 110, 103, 101, 114, 58, 47, 47, 83, 72, 65, 82, 69>> (* "FB-Messenger://SHARE" *), <<102, 98, 45, 109, 101, 115, 115, 101, 110, 103, 101, 114, 58, 47, 47, 115, 104, 97, 114>> (* "fb-messenger://shar" *),
   <<119, 104, 97, 116, 115, 97, 112, 112, 58, 47, 47, 115, 101, 110, 100>> (* "whatsapp://send" *), <<87, 104, 97, 116, 115, 65, 112, 112, 58, 47, 47, 83, 101, 110, 100>> (* "WhatsApp://Send" *), <<119, 104, 97, 116, 115, 97, 112, 112, 58, 47, 115, 101, 110, 100>> (* "whatsapp:/send" *), <<>>}
PrefixTokens == {<<53, 53, 53, 49, 50, 51, 52>> (* "5551234" *), <<63, 120, 61, 106, 97, 118, 97, 115, 99, 114, 105, 112, 116, 58>> (* "?x=javascript:" *), <<10>> (* "\n" *), <<101>> (* "e" *), <<58>> (* ":" *), <<47>> (* "/" *)}
PrefixStrings ==
  {h \o t : h \in PrefixHeads, t \in Strings(PrefixTokens, MaxPrefixTokens)}

NextPrefix ==
  \/ FirstCall /\ FromTelUrl(PrefixStrings)
  \/ FirstCall /\ FromSshUrl(PrefixStrings)
  \/ FirstCall /\ FromFacebookMessengerUrl(PrefixStrings)
  \/ FirstCall /\ FromWhatsAppUrl(PrefixStrings)
SpecPrefix == Init /\ [][NextPrefix]_vars

PrefixOf(op) ==
  CASE op = "fromTelUrl" -> <<116, 101, 108, 58>> (* "tel:" *)
    [] op = "fromSshUrl" -> <<115, 115, 104, 58, 47, 47>> (* "ssh://" *)
    [] op = "fromFacebookMessengerUrl" -> <<102, 98, 45, 109, 101, 115, 115, 101, 110, 103, 101, 114, 58, 47, 47, 115, 104, 97, 114, 101>> (* "fb-messenger://share" *)
    [] op = "fromWhatsAppUrl" -> <<119, 104, 97, 116, 115, 97, 112, 112, 58, 47, 47, 115, 101, 110, 100>> (* "whatsapp://send" *)

\* C16: fromTelUrl, fromSshUrl, fromFacebookMessengerUrl and fromWhatsAppUrl
\* return a SafeUrl that wraps the input when it begins, letter case aside,
\* with 'tel:', 'ssh://', 'fb-messenger://share' or 'whatsapp://send', and
\* INNOCUOUS_STRING when it does not, whatever follows the prefix.
C16_PrefixValidators ==
  call.op \in {"fromTelUrl", "fromSshUrl", "fromFacebookMessengerUrl",
               "fromWhatsAppUrl"} =>
    /\ thrown = "none"
    /\ ret.k = "ref"
    /\ Unwrapped =
         Str(IF BeginsNoCase(call.arg.s, PrefixOf(call.op)) THEN call.arg.s
             ELSE INNOCUOUS_STRING)

C16_Witness ==
  /\ call.op = "fromFacebookMessengerUrl"
  /\ call.arg = Str(<<70, 66, 45, 77, 101, 115, 115, 101, 110, 103, 101, 114, 58, 47, 47, 83, 72, 65, 82, 69, 63, 120, 61, 106, 97, 118, 97, 115, 99, 114, 105, 112, 116, 58>> (* "FB-Messenger://SHARE?x=javascript:" *))
  /\ Unwrapped = call.arg

(***************************************************************************)
(* fromSipUrl: what it keeps                                               *)
(***************************************************************************)

\* c is, letter case aside, one of set
InNoCase(c, set) == \E m \in set : Fold(m) = Fold(c)

\* the characters of the local part: + _ . ! $ % & ' * / = ^ ` { | } ~ -
\* and alphanumerics; neither '?' nor '#' nor '@' is among them
SipLocalChars ==
  LowerAZ \cup Digits \cup
  {43, 95, 46, 33, 36, 37, 38, 39, 42, 47, 61, 94, 96, 123, 124, 125, 126, 45}

\* s is labels of alphanumerics and '-', each followed by a dot, and a last
\* label of 2 to 63 alphanumerics
IsSipDomain(s) ==
  \E k \in 2..Len(s) :
    /\ s[k] = 46
    /\ Len(s) - k \in 2..63
    /\ \A i \in (k + 1)..Len(s) : InNoCase(s[i], LowerAZ \cup Digits)
    /\ s[1] # 46
    /\ \A i \in 1..(k - 1) :
         /\ InNoCase(s[i], LowerAZ \cup Digits \cup {45, 46})
         /\ s[i] = 46 => s[i + 1] # 46

\* d is sip: or sips:, a local part, '@' and a domain, and nothing else
IsSipAddress(d) ==
  \E p \in {4, 5} :
    /\ BeginsNoCase(d, IF p = 4 THEN <<115, 105, 112, 58>> (* "sip:" *) ELSE <<115, 105, 112, 115, 58>> (* "sips:" *))
    /\ \E a \in (p + 2)..Len(d) :
         /\ d[a] = 64
         /\ \A i \in (p + 1)..(a - 1) : InNoCase(d[i], SipLocalChars)
         /\ IsSipDomain(Sub(d, a + 1, Len(d)))

\* C17: fromSipUrl(x) unwraps to x, undecoded, when the percent-decoded x is
\* as a whole sip: or sips:, a non-empty local part without '?' and '#',
\* '@' and a dotted domain whose last label is 2 to 63 alphanumerics; in
\* every other case it unwraps to INNOCUOUS_STRING.
C17_FromSipUrl ==
  call.op = "fromSipUrl" =>
    LET decoded == decodeURIComponent(call.arg.s)
    IN /\ thrown = "none"
       /\ Unwrapped =
            Str(IF decoded.ok /\ IsSipAddress(decoded.s) THEN call.arg.s
                ELSE INNOCUOUS_STRING)

(***************************************************************************)
(* fromConstant and fromTrustedResourceUrl: one call from a fresh page     *)
(***************************************************************************)

NextTrusted ==
  \/ FirstCall /\ FromConstant(Strings(GenericTokens, MaxGenericTokens))
  \/ FirstCall
     /\ FromTrustedResourceUrl(Strings(GenericTokens, MaxGenericTokens))

SpecTrusted == Init /\ [][NextTrusted]_vars

\* C18: fromConstant(c) and fromTrustedResourceUrl(r) validate nothing: the
\* result unwraps to exactly the string that c, respectively r, wraps,
\* whether or not the generic sanitizer would keep that string.
C18_NoValidation ==
  call.op \in {"fromConstant", "fromTrustedResourceUrl"} =>
    /\ thrown = "none"
    /\ Unwrapped = Str(call.arg.s)

\* a constant that sanitize replaces by INNOCUOUS_URL is wrapped as it is
C18_Witness ==
  /\ call.op = "fromConstant"
  /\ call.arg = Const(<<106, 97, 118, 97, 115, 99, 114, 105, 112, 116, 58, 97>> (* "javascript:a" *))
  /\ sanitize(Published, Str(call.arg.s)).ret = INNOCUOUS_URL
  /\ Unwrapped = Str(<<106, 97, 118, 97, 115, 99, 114, 105, 112, 116, 58, 97>> (* "javascript:a" *))

(***************************************************************************)
(* Sequences of validator and sanitizer calls                              *)
(***************************************************************************)

\* How many SafeUrl instances a sequence of calls may have constructed
\* before the calls stop.
MaxHistory == 2

HistoryRoom == Len(heap) < Len(Published.heap) + MaxHistory

\* the public function that the call c names, applied in st to c's arguments
Apply(st, c) ==
  CASE c.op = "sanitize" -> sanitize(st, c.arg)
    [] c.op = "trySanitize" -> trySanitize(st, c.arg)
    [] c.op = "sanitizeAssertUnchanged" ->
         sanitizeAssertUnchanged(st, c.arg, c.opt.allow)
    [] c.op = "tryFromDataUrl" -> tryFromDataUrl(st, c.arg)
    [] c.op = "fromDataUrl" -> fromDataUrl(st, c.arg)
    [] c.op = "fromTelUrl" -> fromTelUrl(st, c.arg.s)
    [] c.op = "fromSipUrl" -> fromSipUrl(st, c.arg.s)
    [] c.op = "fromSmsUrl" -> fromSmsUrl(st, c.arg.s)
    [] c.op = "fromSshUrl" -> fromSshUrl(st, c.arg.s)
    [] c.op = "fromFacebookMessengerUrl" ->
         fromFacebookMessengerUrl(st, c.arg.s)
    [] c.op = "fromWhatsAppUrl" -> fromWhatsAppUrl(st, c.arg.s)
    [] c.op = "sanitizeChromeExtensionUrl" ->
         sanitizeChromeExtensionUrl(
           st, c.arg.s, [single |-> c.opt.single, ids |-> c.opt.ids])
    [] c.op = "sanitizeFirefoxExtensionUrl" ->
         sanitizeFirefoxExtensionUrl(
           st, c.arg.s, [single |-> c.opt.single, ids |-> c.opt.ids])
    [] c.op = "sanitizeEdgeExtensionUrl" ->
         sanitizeEdgeExtensionUrl(
           st, c.arg.s, [single |-> c.opt.single, ids |-> c.opt.ids])
    [] c.op = "fromBlob" -> fromBlob(st, c.arg)

HistoryCall(op, args, opts) ==
  \E arg \in args, opt \in opts :
    /\ HistoryRoom
    /\ Do(op, arg, opt, Apply(St, [op |-> op, arg |-> arg, opt |-> opt]))

NextHistory ==
  \/ HistoryCall("sanitize",
                 {Str(HttpUrl), Str(CrLfDataUrl), Str(JavascriptUrl)}, {NoOpt})
  \/ HistoryCall("trySanitize", {Str(HttpUrl), Str(JavascriptUrl)}, {NoOpt})
  \/ HistoryCall("sanitizeAssertUnchanged", {Str(PngDataUrl)},
                 {AllowOpt(TRUE)})
  \/ HistoryCall("tryFromDataUrl", {Str(CrLfDataUrl)}, {NoOpt})
  \/ HistoryCall("fromDataUrl", {Str(HtmlDataUrl)}, {NoOpt})
  \/ HistoryCall("fromTelUrl", {Str(TelUrl)}, {NoOpt})
  \/ HistoryCall("fromSipUrl", {Str(SipUrl), Str(SipUrlBadEscape)}, {NoOpt})
  \/ HistoryCall("fromSmsUrl", {Str(SmsUrl), Str(SmsUrlTwoBodies)}, {NoOpt})
  \/ HistoryCall("fromSshUrl", {Str(SshUrl)}, {NoOpt})
  \/ HistoryCall("fromFacebookMessengerUrl", {Str(MessengerUrl)}, {NoOpt})
  \/ HistoryCall("fromWhatsAppUrl", {Str(WhatsAppUrl)}, {NoOpt})
  \/ HistoryCall("sanitizeChromeExtensionUrl", {Str(ChromeUrl)},
                 {IdsOpt(OneExtensionId(<<97, 98, 99>> (* "abc" *)))})
  \/ HistoryCall("sanitizeFirefoxExtensionUrl", {Str(EdgeUrl)},
                 {IdsOpt(OneExtensionId(<<97, 98, 99>> (* "abc" *)))})
  \/ HistoryCall("sanitizeEdgeExtensionUrl", {Str(EdgeUrl)},
                 {IdsOpt(OneExtensionId(<<97, 98, 99>> (* "abc" *)))})
  \/ HistoryCall("fromBlob", {Blob(PngType)}, {NoOpt})

SpecHistory == Init /\ [][NextHistory]_vars

\* what a call gave: the exception, the payload of the SafeUrl, or nothing
Result(out) ==
  IF out.thrown # "none" THEN [kind |-> out.thrown, payload |-> <<>>]
  ELSE IF out.ret.k = "ref"
  THEN [kind |-> "payload", payload |-> out.heap[out.ret.id].value]
  ELSE [kind |-> "absent", payload |-> <<>>]

IdemArgs ==
  GenericStrings \cup {Str(s) : s \in DataStrings} \cup {Str(INNOCUOUS_STRING)}

NextIdem == FirstCall /\ Sanitize(IdemArgs)

SpecIdem == Init /\ [][NextIdem]_vars

\* C20: for every string x, sanitize(unwrap(sanitize(x))) unwraps to the
\* string that sanitize(x) unwraps to; so INNOCUOUS_STRING is sanitized to
\* itself, and the payload of an accepted data URL, from which the CR/LF
\* escapes were removed, is accepted again without a change.
C20_SanitizeIdempotent ==
  (call.op = "sanitize" /\ call.arg.k = "str") =>
    /\ thrown = "none"
    /\ sanitize(St, Unwrapped).thrown = "none"
    /\ Payload(sanitize(St, Unwrapped)) = Unwrapped.s

(***************************************************************************)
(* goog.structs.StringSet (structs/stringset.js)                           *)
(*                                                                         *)
(* A JavaScript object is modelled by its own enumerable keys, in the      *)
(* order of their insertion, and by whether Object.prototype is still its  *)
(* prototype.  No key below is an array index, so the order in which       *)
(* Object.keys and for-in give the own keys is the order of insertion;     *)
(* Object.prototype has no enumerable key (the constructor checks it), so  *)
(* for-in gives the own keys only.                                         *)
(***************************************************************************)

\* the property names that every object inherits from Object.prototype
ObjectPrototypeKeys ==
  {<<99, 111, 110, 115, 116, 114, 117, 99, 116, 111, 114>> (* "constructor" *), <<104, 97, 115, 79, 119, 110, 80, 114, 111, 112, 101, 114, 116, 121>> (* "hasOwnProperty" *), <<105, 115, 80, 114, 111, 116, 111, 116, 121, 112, 101, 79, 102>> (* "isPrototypeOf" *),
   <<112, 114, 111, 112, 101, 114, 116, 121, 73, 115, 69, 110, 117, 109, 101, 114, 97, 98, 108, 101>> (* "propertyIsEnumerable" *), <<116, 111, 76, 111, 99, 97, 108, 101, 83, 116, 114, 105, 110, 103>> (* "toLocaleString" *), <<116, 111, 83, 116, 114, 105, 110, 103>> (* "toString" *), <<118, 97, 108, 117, 101, 79, 102>> (* "valueOf" *),
   <<95, 95, 112, 114, 111, 116, 111, 95, 95>> (* "__proto__" *), <<95, 95, 100, 101, 102, 105, 110, 101, 71, 101, 116, 116, 101, 114, 95, 95>> (* "__defineGetter__" *), <<95, 95, 100, 101, 102, 105, 110, 101, 83, 101, 116, 116, 101, 114, 95, 95>> (* "__defineSetter__" *),
   <<95, 95, 108, 111, 111, 107, 117, 112, 71, 101, 116, 116, 101, 114, 95, 95>> (* "__lookupGetter__" *), <<95, 95, 108, 111, 111, 107, 117, 112, 83, 101, 116, 116, 101, 114, 95, 95>> (* "__lookupSetter__" *)}

\* goog.structs.StringSet.EMPTY_OBJECT_ = {}
EMPTY_OBJECT_ == [keys |-> <<>>, proto |-> TRUE]

\* Object.keys(obj), and the keys that for (key in obj) visits
OwnKeys(obj) == obj.keys

\* key in obj
In(key, obj) ==
  \/ \E i \in 1..Len(obj.keys) : obj.keys[i] = key
  \/ obj.proto /\ key \in ObjectPrototypeKeys

\* obj[key] = null: a new own key goes last, an own key stays in its place;
\* the inherited setter of __proto__ replaces the prototype by null and
\* defines nothing
Put(obj, key) ==
  IF \E i \in 1..Len(obj.keys) : obj.keys[i] = key THEN obj
  ELSE IF obj.proto /\ key = <<95, 95, 112, 114, 111, 116, 111, 95, 95>> (* "__proto__" *) THEN [obj EXCEPT !.proto = FALSE]
  ELSE [obj EXCEPT !.keys = Append(@, key)]

\* delete obj[key]
Delete(obj, key) == [obj EXCEPT !.keys = SelectSeq(@, LAMBDA k : k # key)]

\* obj[key] = null, respectively delete obj[key], for each key of a loop
RECURSIVE PutAll(_, _)
PutAll(obj, keys) ==
  IF keys = <<>> THEN obj ELSE PutAll(Put(obj, Head(keys)), Tail(keys))
RECURSIVE DeleteAll(_, _)
DeleteAll(obj, keys) ==
  IF keys = <<>> THEN obj ELSE DeleteAll(Delete(obj, Head(keys)), Tail(keys))

\* goog.structs.StringSet.encode_(element), element a string
\* (UnescapedEncode: without the test for inherited names;
\* SpaceBlindEncode: without the test for a leading space)
UnescapedEncode(element) ==
  IF element # <<>> /\ element[1] = 32 THEN <<32>> \o element ELSE element
SpaceBlindEncode(element) ==
  IF In(element, EMPTY_OBJECT_) THEN <<32>> \o element ELSE element
encode_(element) ==
  IF In(element, EMPTY_OBJECT_) \/ (element # <<>> /\ element[1] = 32)
  THEN <<32>> \o element
  ELSE element

\* goog.structs.StringSet.decode_(key)
decode_(key) ==
  IF key # <<>> /\ key[1] = 32 THEN Sub(key, 2, Len(key)) ELSE key

\* The methods below take the instances in existence, ss, and the index of
\* this in ss.  A method that changes an instance gives the instances that
\* it leaves; a method that makes an instance gives them too, the new one
\* last.

\* new goog.structs.StringSet(opt_elements)
StringSet(ss, opt_elements) ==
  Append(ss,
         PutAll([keys |-> <<>>, proto |-> TRUE],
                [i \in 1..Len(opt_elements) |-> encode_(opt_elements[i])]))

\* goog.structs.StringSet.prototype.add
add(ss, this, element) == [ss EXCEPT ![this] = Put(@, encode_(element))]

\* goog.structs.StringSet.prototype.addArray
addArray(ss, this, arr) ==
  [ss EXCEPT ![this] = PutAll(@, [i \in 1..Len(arr) |-> encode_(arr[i])])]

\* goog.structs.StringSet.prototype.addDifference_
addDifference_(ss, this, set1, set2) ==
  [ss EXCEPT ![this] =
     PutAll(@, SelectSeq(OwnKeys(ss[set1]), LAMBDA key : ~In(key, ss[set2])))]

\* goog.structs.StringSet.prototype.addSet
addSet(ss, this, stringSet) ==
  [ss EXCEPT ![this] = PutAll(@, OwnKeys(ss[stringSet]))]

\* goog.structs.StringSet.prototype.clear
clear(ss, this) == [ss EXCEPT ![this] = [keys |-> <<>>, proto |-> TRUE]]

\* goog.structs.StringSet.prototype.clone
\* (AliasingClone: returns this itself)
AliasingClone(ss, this) == [sets |-> ss, ret |-> this]
clone(ss, this) ==
  [sets |-> addSet(StringSet(ss, <<>>), Len(ss) + 1, this), ret |-> Len(ss) + 1]

\* goog.structs.StringSet.prototype.contains
contains(ss, this, element) == In(encode_(element), ss[this])

\* goog.structs.StringSet.prototype.getCount
getCount(ss, this) == Len(OwnKeys(ss[this]))

\* goog.structs.StringSet.prototype.getDifference
getDifference(ss, this, stringSet) ==
  [sets |-> addDifference_(StringSet(ss, <<>>), Len(ss) + 1, this, stringSet),
   ret |-> Len(ss) + 1]

\* goog.structs.StringSet.prototype.getIntersection
getIntersection(ss, this, stringSet) ==
  [sets |->
     Append(ss,
            PutAll([keys |-> <<>>, proto |-> TRUE],
                   SelectSeq(OwnKeys(ss[this]),
                             LAMBDA key : In(key, ss[stringSet])))),
   ret |-> Len(ss) + 1]

\* goog.structs.StringSet.prototype.getSymmetricDifference
getSymmetricDifference(ss, this, stringSet) ==
  [sets |->
     addDifference_(
       addDifference_(StringSet(ss, <<>>), Len(ss) + 1, this, stringSet),
       Len(ss) + 1, stringSet, this),
   ret |-> Len(ss) + 1]

\* goog.structs.StringSet.prototype.getUnion
getUnion(ss, this, stringSet) ==
  [sets |-> addSet(clone(ss, this).sets, clone(ss, this).ret, stringSet),
   ret |-> clone(ss, this).ret]

\* goog.structs.StringSet.prototype.values and getValues
values(ss, this) ==
  [i \in 1..Len(OwnKeys(ss[this])) |-> decode_(OwnKeys(ss[this])[i])]
getValues(ss, this) == values(ss, this)

\* goog.structs.StringSet.prototype.delete and remove
delete(ss, this, element) ==
  IF In(encode_(element), ss[this])
  THEN [sets |-> [ss EXCEPT ![this] = Delete(@, encode_(element))],
        ret |-> TRUE]
  ELSE [sets |-> ss, ret |-> FALSE]
remove(ss, this, element) == delete(ss, this, element)

\* goog.structs.StringSet.prototype.removeArray
removeArray(ss, this, arr) ==
  [ss EXCEPT ![this] = DeleteAll(@, [i \in 1..Len(arr) |-> encode_(arr[i])])]

\* goog.structs.StringSet.prototype.removeSet
removeSet(ss, this, stringSet) ==
  [ss EXCEPT ![this] = DeleteAll(@, OwnKeys(ss[stringSet]))]

(***************************************************************************)
(* The StringSet methods as steps                                          *)
(***************************************************************************)

\* the method that the call c names, applied to c's arguments: the
\* instances that it leaves and what it returns
SetApply(ss, c) ==
  CASE c.op = "new" -> [sets |-> StringSet(ss, c.arg), ret |-> Len(ss) + 1]
    [] c.op = "add" -> [sets |-> add(ss, c.this, c.arg), ret |-> Undefined]
    [] c.op = "addArray" ->
         [sets |-> addArray(ss, c.this, c.arg), ret |-> Undefined]
    [] c.op = "addSet" ->
         [sets |-> addSet(ss, c.this, c.arg), ret |-> Undefined]
    [] c.op = "remove" -> remove(ss, c.this, c.arg)
    [] c.op = "removeArray" ->
         [sets |-> removeArray(ss, c.this, c.arg), ret |-> Undefined]
    [] c.op = "removeSet" ->
         [sets |-> removeSet(ss, c.this, c.arg), ret |-> Undefined]
    [] c.op = "clear" -> [sets |-> clear(ss, c.this), ret |-> Undefined]
    [] c.op = "clone" -> clone(ss, c.this)
    [] c.op = "getUnion" -> getUnion(ss, c.this, c.arg)
    [] c.op = "getIntersection" -> getIntersection(ss, c.this, c.arg)
    [] c.op = "getDifference" -> getDifference(ss, c.this, c.arg)
    [] c.op = "getSymmetricDifference" ->
         getSymmetricDifference(ss, c.this, c.arg)

\* one call of the method op on one of thises with one of args, while it
\* leaves no more than max instances
SetCall(op, thises, args, max) ==
  \E this \in thises, arg \in args :
    LET c == [op |-> op, this |-> this, arg |-> arg]
        out == SetApply(sets, c)
    IN /\ Len(out.sets) <= max
       /\ sets' = out.sets
       /\ ret' = out.ret
       /\ call' = c
       /\ UNCHANGED <<heap, made, reg, thrown, asserted, debug>>

(***************************************************************************)
(* StringSet: one set that is changed and queried, and the sets that are   *)
(* taken away from it                                                      *)
(***************************************************************************)
\* How many StringSet instances may have been constructed before the
\* constructor stops being called.
MaxSets == 2

SetElements == {<<97>> (* "a" *), <<116, 111, 83, 116, 114, 105, 110, 103>> (* "toString" *), <<32, 116, 111, 83, 116, 114, 105, 110, 103>> (* " toString" *), <<95, 95, 112, 114, 111, 116, 111, 95, 95>> (* "__proto__" *)}
SetArrays ==
  {<<>>, <<<<116, 111, 83, 116, 114, 105, 110, 103>> (* "toString" *), <<32, 116, 111, 83, 116, 114, 105, 110, 103>> (* " toString" *)>>, <<<<97>> (* "a" *), <<95, 95, 112, 114, 111, 116, 111, 95, 95>> (* "__proto__" *), <<97>> (* "a" *)>>}
AllSets == 1..Len(sets)
FirstSet == {1} \cap AllSets

NextSet ==
  \/ SetCall("new", {0}, SetArrays, MaxSets)
  \/ SetCall("add", FirstSet, SetElements, MaxSets)
  \/ SetCall("addArray", FirstSet, SetArrays, MaxSets)
  \/ SetCall("remove", FirstSet, SetElements, MaxSets)
  \/ SetCall("removeArray", FirstSet, SetArrays, MaxSets)
  \/ SetCall("removeSet", FirstSet, AllSets, MaxSets)
  \/ SetCall("clear", FirstSet, {<<>>}, MaxSets)

SpecSet == Init /\ [][NextSet]_vars

\* the strings in an array
Range(arr) == {arr[i] : i \in 1..Len(arr)}

\* the strings that getValues lists for the set at index this of ss
Elements(ss, this) == Range(getValues(ss, this))

\* strings that are asked for: those that are added, and others that never
\* are
Probes ==
  SetElements \cup
  {<<32, 97>> (* " a" *), <<32, 32, 116, 111, 83, 116, 114, 105, 110, 103>> (* "  toString" *), <<32, 95, 95, 112, 114, 111, 116, 111, 95, 95>> (* " __proto__" *), <<99, 111, 110, 115, 116, 114, 117, 99, 116, 111, 114>> (* "constructor" *), <<118, 97, 108, 117, 101, 79, 102>> (* "valueOf" *), <<>>}

\* contains, getCount and getValues of every set in ss tell of one set of
\* strings
ObserversAgree(ss) ==
  \A this \in 1..Len(ss) :
    /\ \A x \in Probes : contains(ss, this, x) <=> x \in Elements(ss, this)
    /\ getCount(ss, this) = Cardinality(Elements(ss, this))
    /\ Len(getValues(ss, this)) = Cardinality(Elements(ss, this))

\* what the set at index c.this should hold after the call c
ExpectedElements(ss, c) ==
  CASE c.op = "add" -> Elements(ss, c.this) \cup {c.arg}
    [] c.op = "addArray" -> Elements(ss, c.this) \cup Range(c.arg)
    [] c.op = "remove" -> Elements(ss, c.this) \ {c.arg}
    [] c.op = "removeArray" -> Elements(ss, c.this) \ Range(c.arg)
    [] c.op = "removeSet" -> Elements(ss, c.this) \ Elements(ss, c.arg)
    [] c.op = "clear" -> {}
    [] OTHER -> Elements(ss, c.this)

\* C21: a StringSet is a set of strings.  A new set holds the strings it was
\* given; add and addArray put strings in, remove, delete, removeArray and
\* removeSet take strings out, clear takes all out, and no call changes
\* another set; contains(x) is true exactly for the strings that are in,
\* getCount is their number and getValues lists each once, decoded; this
\* holds for names inherited from Object.prototype and for strings that
\* begin with a space; remove(x) returns whether x was in.
C21_StringSetIsASet ==
  [][/\ ObserversAgree(sets')
     /\ call'.op = "new" =>
          /\ Len(sets') = Len(sets) + 1
          /\ ret' = Len(sets')
          /\ Elements(sets', ret') = Range(call'.arg)
          /\ \A i \in 1..Len(sets) : Elements(sets', i) = Elements(sets, i)
     /\ call'.op # "new" =>
          /\ Len(sets') = Len(sets)
          /\ \A i \in 1..Len(sets) :
               Elements(sets', i) =
                 IF i = call'.this THEN ExpectedElements(sets, call')
                 ELSE Elements(sets, i)
     /\ call'.op = "remove" =>
          ret' = (call'.arg \in Elements(sets, call'.this))]_vars

\* 'a' was in the set and was removed from it; the set holds an inherited
\* name, the same name after a space and '__proto__', and not 'constructor'
C21_Witness ==
  /\ Len(sets) >= 1
  /\ call = [op |-> "remove", this |-> 1, arg |-> <<97>> (* "a" *)]
  /\ ret = TRUE
  /\ getValues(sets, 1) = <<<<116, 111, 83, 116, 114, 105, 110, 103>> (* "toString" *), <<95, 95, 112, 114, 111, 116, 111, 95, 95>> (* "__proto__" *), <<32, 116, 111, 83, 116, 114, 105, 110, 103>> (* " toString" *)>>
  /\ ~contains(sets, 1, <<99, 111, 110, 115, 116, 114, 117, 99, 116, 111, 114>> (* "constructor" *))

(***************************************************************************)
(* StringSet: sets made from other sets, and changed afterwards            *)
(***************************************************************************)

\* How many StringSet instances may have been constructed before the
\* constructor and the methods that return a new set stop being called.
MaxAlgebraSets == 3

AlgebraElements == {<<97>> (* "a" *), <<116, 111, 83, 116, 114, 105, 110, 103>> (* "toString" *)}
AlgebraArrays == {<<>>, <<<<116, 111, 83, 116, 114, 105, 110, 103>> (* "toString" *)>>, <<<<97>> (* "a" *), <<116, 111, 83, 116, 114, 105, 110, 103>> (* "toString" *)>>}

NextAlgebra ==
  \/ SetCall("new", {0}, AlgebraArrays, MaxAlgebraSets)
  \/ SetCall("clone", AllSets, {<<>>}, MaxAlgebraSets)
  \/ SetCall("getUnion", AllSets, AllSets, MaxAlgebraSets)
  \/ SetCall("getIntersection", AllSets, AllSets, MaxAlgebraSets)
  \/ SetCall("getDifference", AllSets, AllSets, MaxAlgebraSets)
  \/ SetCall("getSymmetricDifference", AllSets, AllSets, MaxAlgebraSets)
  \/ SetCall("add", AllSets, AlgebraElements, MaxAlgebraSets)
  \/ SetCall("remove", AllSets, AlgebraElements, MaxAlgebraSets)

SpecAlgebra == Init /\ [][NextAlgebra]_vars

\* the methods that return a set made from this and their argument
SetMakers ==
  {"clone", "getUnion", "getIntersection", "getDifference",
   "getSymmetricDifference"}

\* the set of strings that the call c of one of SetMakers should return
ExpectedResult(ss, c) ==
  LET A == Elements(ss, c.this)
      B == IF c.op = "clone" THEN {} ELSE Elements(ss, c.arg)
  IN CASE c.op = "clone" -> A
       [] c.op = "getUnion" -> A \cup B
       [] c.op = "getIntersection" -> A \cap B
       [] c.op = "getDifference" -> A \ B
       [] c.op = "getSymmetricDifference" -> (A \ B) \cup (B \ A)

\* C22: getUnion, getIntersection, getDifference, getSymmetricDifference
\* and clone return a new set that holds the union, intersection,
\* difference (this minus the argument), symmetric difference and copy of
\* their operands, and leave every set in existence as it was; an add or a
\* remove changes the set it is called on and no other, be that the result
\* or an operand of an earlier call.
C22_SetAlgebra ==
  [][/\ call'.op \in SetMakers =>
          /\ Len(sets') = Len(sets) + 1
          /\ ret' = Len(sets')
          /\ Elements(sets', ret') = ExpectedResult(sets, call')
          /\ ObserversAgree(sets')
          /\ \A i \in 1..Len(sets) : sets'[i] = sets[i]
     /\ call'.op \in {"add", "remove"} =>
          /\ Len(sets') = Len(sets)
          /\ Elements(sets', call'.this) = ExpectedElements(sets, call')
          /\ \A i \in 1..Len(sets) : i # call'.this => sets'[i] = sets[i]]_vars

\* the symmetric difference of {a, toString} and {toString} was made, as a
\* third set that holds a only
C22_Witness ==
  /\ call = [op |-> "getSymmetricDifference", this |-> 1, arg |-> 2]
  /\ ret = 3
  /\ getValues(sets, 1) = <<<<97>> (* "a" *), <<116, 111, 83, 116, 114, 105, 110, 103>> (* "toString" *)>>
  /\ getValues(sets, 2) = <<<<116, 111, 83, 116, 114, 105, 110, 103>> (* "toString" *)>>
  /\ getValues(sets, 3) = <<<<97>> (* "a" *)>>



====
